---- MODULE Spec2Model ----
(***************************************************************************)
(* The polling-and-reconciliation engine of TOOL-M:                        *)
(*   backend/app/utils/snmp_engine.py  poll_all_devices, poll_device       *)
(*   backend/app/routers/topology.py   backfill_links                      *)
(*   backend/app/models.py             the stored entities                 *)
(*                                                                         *)
(* Storage is a relational database used through one SQLAlchemy session    *)
(* per task.  A session's writes are invisible to the other sessions until *)
(* it commits (READ COMMITTED); the one constraint that reaches across     *)
(* sessions is the UNIQUE index on discovered_devices.lldp_hostname: an    *)
(* INSERT of a name that another open transaction has inserted waits for   *)
(* that transaction to end, and raises when the name is then committed.    *)
(* After a failed flush the session refuses every statement until it is    *)
(* rolled back.                                                            *)
(*                                                                         *)
(* Time is the number of the running cycle: every datetime.utcnow() of a   *)
(* cycle yields `cycle`.  A primary key is the event that created the row  *)
(* (device, cycle, interface index), which is unique as a serial is.       *)
(***************************************************************************)
EXTENDS Integers, Sequences, FiniteSets, TLC

\* ------------------------------------------------------------------ bounds
NumDevices == 2
MaxIdx == 1
MaxCycles == 2
NumNames == 1
MaxLimit == 1
MaxLinks == 2
MaxMacLen == 7
MaxRows == 3
MaxIfaces == 2
NumFleet == 52

\* ------------------------------------------------------- program constants
max_concurrency == 20
ping_concurrency == 50

Dev == 1..NumDevices
NULL == 0

\* Decoded interface names (ifDescr values after replace/strip).
IfNames == 1..MaxIdx
\* LLDP system names announced by neighbors, as text (one character per
\* element); "" is the empty name.
NoName == <<>>
lldp_names == <<<<"S", "W", "1">>, <<"e", "d", "g", "e", "9">>, <<"w", "1">>>>
NbNames == {NoName} \cup {lldp_names[k] : k \in 1..NumNames}
\* Management addresses: "" (none), a managed device's address, or an address
\* of no managed device.  Device d has ip_address d (unique, models.py).
NoIp == 0

\* The value of neighbors.get(index): None, or the dict built by
\* get_lldp_neighbors for that index.
NoNeighbor == [neighbor_ip |-> NoIp, neighbor_iface |-> "", neighbor_name |-> NoName, present |-> FALSE]
Neighbors == {NoNeighbor} \cup
    [neighbor_ip : 0..(NumDevices + 1), neighbor_iface : {"p1"}, neighbor_name : NbNames,
     present : {TRUE}]

VARIABLES
    cycle,       \* number of the running cycle of poll_all_devices' while loop
    devices,     \* table devices: [Dev -> [status, last_seen]]
    interfaces,  \* table interfaces: rows [id, device_id, interface_name]
    stats,       \* table interface_stats: rows [id, interface_id, timestamp]
    discovered,  \* table discovered_devices: rows [id, lldp_hostname, first_seen, last_seen]
    links,       \* table topology_links
    pc,          \* [Dev -> position of the device's sem_task / poll_device]
    loop,        \* [Dev -> [n, i]]: size of the ifDescr walk, next index
    ins,         \* [Dev -> the neighbor whose DiscoveredDevice INSERT is being flushed]
    sess,        \* [Dev -> the uncommitted writes of the task's session]
    dead,        \* [Dev -> the session's transaction was rolled back by a failed flush]
    walked,      \* [Dev -> the (name, decoded, neighbor) of the indices processed this cycle]
    tried,       \* [Dev -> neighbor names sent through find-or-create this cycle]
    outcome,     \* [Dev -> how the device's task ended this cycle]
    ping,        \* [ok: Dev -> BOOLEAN, committed, was_down]: phase A's results of this cycle
    fleet,       \* the scheduler's tasks counted by position (SpecFleet)
    inventory,   \* the Device and Interface columns the backfill matcher reads
    reply        \* the call under study and what it returned

vars == <<cycle, devices, interfaces, stats, discovered, links, pc, loop,
          ins, sess, dead, walked, tried, outcome, ping, fleet, inventory, reply>>

db == <<devices, interfaces, stats, discovered, links>>
hist == <<walked, tried, outcome>>

NoInsert == [name |-> NULL, nb |-> NoNeighbor]

\* No task of the counted fleet exists: the scheduler is at the top of its
\* while loop.  err is the last error of the running pass, prev that of the
\* pass before.
FleetIdle == [phase |-> "top", ping_waiting |-> 0, ping_running |-> 0,
              waiting |-> 0, checking |-> 0, polling |-> 0,
              err |-> "none", prev |-> "none"]

\* Text is a sequence of characters; None is the NULL of a nullable column and
\* the None of Python.
None == <<"None">>

\* A session without pending writes; lldp_hostname is the pending change of
\* the polled Device row's lldp_hostname.
EmptySess == [ifaces |-> {}, stats |-> {}, dd |-> {}, links |-> {},
              ddSeen |-> {}, linkSeen |-> {}, lldp_hostname |-> None]

\* No pass of the scheduler has probed yet.
NoPing == [ok |-> [d \in Dev |-> FALSE], committed |-> FALSE, was_down |-> {}]

\* A Device row as POST /devices stores it, by the columns the poller writes.
NewDevice == [status |-> "unknown", last_seen |-> NULL, lldp_hostname |-> None]

\* all_devices and all_ifaces as the endpoint's two selects return them: the
\* rows in the order the database chooses (the selects have no ORDER BY).  A
\* hostname may be NULL (the column is nullable, PUT /devices/{id} stores what
\* it is given) or empty.
D_sw1 == [id |-> 1, hostname |-> <<"s", "w", "1">>, ip_address |-> <<"1", "0", ".", "0", ".", "0", ".", "1">>]
D_r2 == [id |-> 2, hostname |-> <<"r", "2">>, ip_address |-> <<"1", "0", ".", "0", ".", "0", ".", "2">>]
D_lab == [id |-> 3, hostname |-> <<"S", "W", "1", ".", "l", "a", "b">>, ip_address |-> <<"1", "0", ".", "0", ".", "0", ".", "3">>]
I_r2 == [device_id |-> 2, mac_address |-> <<"0", "0", ":", "1", "1", ":", "2", "2", ":", "3", "3", ":", "4", "4", ":", "5", "5">>]
I_sw1 == [device_id |-> 1, mac_address |-> <<"A", "A", "-", "B", "B", "-", "C", "C", "-", "0", "0", "-", "0", "0", "-", "0", "1">>]

\* The devices table as POST /backfill reads it: the hostname and address of
\* every managed device, and no interface MAC.
Managed == [devices |-> SubSeq(<<D_sw1, D_r2, D_lab>>, 1, NumDevices), ifaces |-> <<>>]

\* No hostname, address or MAC is read, no call is made.
NoInventory == [devices |-> <<>>, ifaces |-> <<>>]
NoCall == [fn |-> "none"]

Init ==
    /\ cycle = 0
    /\ devices = [d \in Dev |-> NewDevice]
    /\ interfaces = {}
    /\ stats = {}
    /\ discovered = {}
    /\ links = {}
    /\ pc = [d \in Dev |-> "done"]
    /\ loop = [d \in Dev |-> [n |-> 0, i |-> 0]]
    /\ ins = [d \in Dev |-> NoInsert]
    /\ sess = [d \in Dev |-> EmptySess]
    /\ dead = [d \in Dev |-> FALSE]
    /\ walked = [d \in Dev |-> <<>>]
    /\ tried = [d \in Dev |-> {}]
    /\ outcome = [d \in Dev |-> "none"]
    /\ ping = NoPing
    /\ fleet = FleetIdle
    /\ inventory = Managed
    /\ reply = NoCall

\* ---------------------------------------------------------------- storage
\* What the session of device d's task reads: committed rows and its own
\* flushed rows.
vis_interfaces(d) == interfaces \cup sess[d].ifaces
vis_discovered(d) == discovered \cup sess[d].dd
vis_links(d) == links \cup sess[d].links

\* A fresh primary key for a row created while device d processes index i.
RowId(d, i) == (d * 100) + (cycle * 10) + i

\* session.commit() of task d: every pending row and attribute change becomes
\* visible at once.
refreshed(rows, ids) ==
    {IF r.id \in ids THEN [r EXCEPT !.last_seen = cycle] ELSE r : r \in rows}

\* --------------------------------------------------------- fleet scheduler
\* asyncio.Semaphore(max_concurrency): slots held by the sem_tasks inside
\* `async with sem`.
Holding == {d \in Dev : pc[d] \notin {"wait", "done"}}

\* Mutant of slot_free: the task body is entered without the semaphore.
slot_always_free(limit, held) == TRUE

\* `async with sem` / `async with ping_sem` enters when the semaphore, created
\* with `limit` slots of which `held` are taken, has a slot left.
slot_free(limit, held) == held < limit

\* Mutant of ping_update: a failed probe leaves the stored status.
ping_update_ups_only(ok) ==
    [d \in Dev |-> IF ok[d]
                   THEN [devices[d] EXCEPT !.status = "up", !.last_seen = cycle + 1]
                   ELSE devices[d]]

\* One pass of the while loop up to the start of the protocol sweep: snapshot,
\* the gathered probes, the batch status update and its commit.
ping_update(ok) ==
    [d \in Dev |-> IF ok[d]
                   THEN [devices[d] EXCEPT !.status = "up", !.last_seen = cycle + 1]
                   ELSE [devices[d] EXCEPT !.status = "down", !.last_seen = NULL]]

\* Mutant of batch_update: the session of the update is closed without a
\* commit.
batch_update_uncommitted(ok, commit_ok) == devices

\* The batch update and its commit; a commit that raises is rolled back.
batch_update(ok, commit_ok) == IF commit_ok THEN ping_update(ok) ELSE devices

\* was_down: the devices whose poll worker stored them as down in the cycle
\* before.
PhaseA ==
    /\ \A d \in Dev : pc[d] = "done"
    /\ cycle < MaxCycles
    /\ \E ok \in [Dev -> BOOLEAN], commit_ok \in BOOLEAN :
        /\ devices' = batch_update(ok, commit_ok)
        /\ ping' = [ok |-> ok, committed |-> commit_ok,
                    was_down |-> {d \in Dev : outcome[d] = "down"}]
    /\ cycle' = cycle + 1
    /\ pc' = [d \in Dev |-> "wait"]
    /\ loop' = [d \in Dev |-> [n |-> 0, i |-> 0]]
    /\ walked' = [d \in Dev |-> <<>>]
    /\ tried' = [d \in Dev |-> {}]
    /\ outcome' = [d \in Dev |-> "none"]
    /\ UNCHANGED <<interfaces, stats, discovered, links, ins, sess, dead>>
    /\ UNCHANGED <<fleet, inventory, reply>>

\* Mutant of event_loop_free: run_walk is called on the event loop, which
\* runs no other task until the walk has returned.
event_loop_held(d) == \A e \in Dev \ {d} : pc[e] # "walk"

\* snmp_walk awaits asyncio.to_thread(run_walk): the blocking walk waits for
\* its replies or its timeout in a worker thread, and the event loop runs the
\* steps of the other tasks meanwhile.  pc[e] = "walk" while the gathered
\* walks of device e are in flight.
event_loop_free(d) == TRUE

\* sem_task: `async with sem`.
sem_acquire(d) ==
    /\ pc[d] = "wait"
    /\ event_loop_free(d)
    /\ slot_free(max_concurrency, Cardinality(Holding))
    /\ pc' = [pc EXCEPT ![d] = "check"]
    /\ UNCHANGED <<cycle, db, loop, ins, sess, dead, hist, ping>>
    /\ UNCHANGED <<fleet, inventory, reply>>

\* Mutant of status_is_down: the re-check is left out.
status_never_down(d) == FALSE

\* sem_task: the status re-check, made while the slot is held.
status_is_down(d) == devices[d].status = "down"

\* sem_task returns: the task leaves `async with sem` and ends.
task_ends(p, d) == [p EXCEPT ![d] = "done"]

\* Mutant of task_raised: the exception leaves the task and the gather, and
\* the tasks still waiting for the semaphore are cancelled.
task_raised_cancelling(p, d) ==
    [e \in Dev |-> IF e = d \/ p[e] = "wait" THEN "done" ELSE p[e]]

\* An exception of the re-check or of poll_device reaches sem_task's handler,
\* which logs it: the task leaves `async with sem` and ends, and
\* gather(return_exceptions=True) has nothing to propagate.
task_raised(p, d) == [p EXCEPT ![d] = "done"]

\* check_ok: the session and the select of the re-check raise nothing.
sem_task(d) ==
    /\ pc[d] = "check"
    /\ event_loop_free(d)
    /\ \E check_ok \in BOOLEAN :
        IF ~check_ok
        THEN /\ pc' = task_raised(pc, d)
             /\ outcome' = [outcome EXCEPT ![d] = "checkfailed"]
        ELSE IF status_is_down(d)
        THEN /\ pc' = task_ends(pc, d)
             /\ outcome' = [outcome EXCEPT ![d] = "skipped"]
        ELSE /\ pc' = [pc EXCEPT ![d] = "walk"]
             /\ UNCHANGED outcome
    /\ UNCHANGED <<cycle, db, loop, ins, sess, dead, walked, tried, ping>>
    /\ UNCHANGED <<fleet, inventory, reply>>

\* ------------------------------------------------------------- poll_device
\* Mutant of mark_down: the status is set, last_seen is not cleared.
mark_down_keeps_last_seen(d, commit_ok) ==
    IF commit_ok
    THEN [devices EXCEPT ![d].status = "down"]
    ELSE devices

\* Primary walk failed or empty: own session, mark the device down, commit;
\* an exception of the commit is answered by rollback.  Then return (which
\* also leaves sem_task's `async with sem`).
mark_down(d, commit_ok) ==
    IF commit_ok
    THEN [devices EXCEPT ![d].status = "down", ![d].last_seen = NULL]
    ELSE devices

\* The gathered interface walks.  n = 0 stands for an ifDescr walk that is None
\* or empty, n > 0 for a walk with n rows.
poll_device(d) ==
    /\ pc[d] = "walk"
    /\ \E n \in 0..MaxIdx :
        IF n = 0
        THEN /\ \E commit_ok \in BOOLEAN :
                  /\ devices' = mark_down(d, commit_ok)
                  /\ outcome' = [outcome EXCEPT ![d] =
                                    IF commit_ok THEN "down" ELSE "downfailed"]
             /\ pc' = task_ends(pc, d)
             /\ UNCHANGED loop
        ELSE /\ pc' = [pc EXCEPT ![d] = "loop"]
             /\ loop' = [loop EXCEPT ![d] = [n |-> n, i |-> 1]]
             /\ UNCHANGED <<devices, outcome>>
    /\ UNCHANGED <<cycle, interfaces, stats, discovered, links, ins, sess,
                   dead, walked, tried, ping>>
    /\ UNCHANGED <<fleet, inventory, reply>>

\* existing_ifaces: the device's interface rows keyed by name, with the rows
\* this cycle has added (existing_ifaces[name] = intf).
existing_ifaces(d) == {r \in vis_interfaces(d) : r.device_id = d}

\* Mutant of has_iface: the lookup in existing_ifaces never hits.
has_iface_never(d, name) == FALSE

has_iface(d, name) == \E r \in existing_ifaces(d) : r.interface_name = name

\* Mutant of upsert_interface: the InterfaceStats row is added in the create
\* branch only.
upsert_interface_stat_on_create(s, d, i, name) ==
    IF has_iface(d, name) THEN s
    ELSE [s EXCEPT
            !.ifaces = @ \cup {[id |-> RowId(d, i), device_id |-> d,
                                interface_name |-> name]},
            !.stats = @ \cup {[id |-> RowId(d, i), interface_id |-> RowId(d, i),
                               timestamp |-> cycle]}]

\* Find or create the Interface row, then add the InterfaceStats row.
upsert_interface(s, d, i, name) ==
    LET found == has_iface(d, name)
        intf_id == IF found
                   THEN (CHOOSE r \in existing_ifaces(d) : r.interface_name = name).id
                   ELSE RowId(d, i)
    IN [s EXCEPT
          !.ifaces = IF found THEN @
                     ELSE @ \cup {[id |-> intf_id, device_id |-> d,
                                   interface_name |-> name]},
          !.stats = @ \cup {[id |-> RowId(d, i), interface_id |-> intf_id,
                             timestamp |-> cycle]}]

\* select(Device).where(Device.ip_address == neighbor_ip), guarded by
\* `if neighbor_ip`.
neighbor_device(ip) == IF ip \in Dev THEN ip ELSE NULL

new_link(d, i, name, nb, dst, dst_dd) ==
    [id |-> RowId(d, i), src_device_id |-> d, src_interface |-> name,
     dst_device_id |-> dst, dst_discovered_device_id |-> dst_dd,
     dst_interface |-> nb.neighbor_iface, dst_hostname |-> nb.neighbor_name,
     last_seen |-> cycle]

\* The three branches of "Create topology link".
link_managed(s, d, i, name, nb, ndev) ==
    LET hit == {l \in vis_links(d) :
                   /\ l.src_device_id = d
                   /\ l.src_interface = name
                   /\ l.dst_device_id = ndev
                   /\ l.dst_interface = nb.neighbor_iface}
    IN IF hit # {}
       THEN [s EXCEPT !.linkSeen = @ \cup {(CHOOSE l \in hit : TRUE).id}]
       ELSE [s EXCEPT !.links = @ \cup {new_link(d, i, name, nb, ndev, NULL)}]

link_discovered(s, d, i, name, nb, dd_id) ==
    LET hit == {l \in vis_links(d) :
                   /\ l.src_device_id = d
                   /\ l.src_interface = name
                   /\ l.dst_discovered_device_id = dd_id
                   /\ l.dst_interface = nb.neighbor_iface}
    IN IF hit # {}
       THEN [s EXCEPT !.linkSeen = @ \cup {(CHOOSE l \in hit : TRUE).id}]
       ELSE [s EXCEPT !.links = @ \cup {new_link(d, i, name, nb, NULL, dd_id)}]

link_fallback(s, d, i, name, nb) ==
    [s EXCEPT !.links = @ \cup {new_link(d, i, name, nb, NULL, NULL)}]

upsert_link(s, d, i, name, nb, ndev, dd_id) ==
    IF ndev # NULL \/ dd_id # NULL \/ nb.neighbor_ip # NoIp \/ nb.neighbor_name # NoName
    THEN IF ndev # NULL THEN link_managed(s, d, i, name, nb, ndev)
         ELSE IF dd_id # NULL THEN link_discovered(s, d, i, name, nb, dd_id)
         ELSE link_fallback(s, d, i, name, nb)
    ELSE s

\* Mutant of device_is_bound: poll_device has fetched the Device row into
\* `device` before the loop.
device_fetched_before_loop == TRUE

\* "if device and not device.lldp_hostname": poll_device binds no name
\* `device`, so evaluating the condition raises NameError, which the
\* per-interface handler catches: the rest of the iteration is skipped.
device_is_bound == FALSE

\* device.lldp_hostname = neighbor_name, when the row has none yet.
set_lldp_hostname(s, d, nb) ==
    IF devices[d].lldp_hostname = None /\ s.lldp_hostname = None
    THEN [s EXCEPT !.lldp_hostname = nb.neighbor_name]
    ELSE s

\* What follows the find-or-create of the DiscoveredDevice dd_id.
after_discovered(s, d, i, name, nb, dd_id) ==
    IF device_is_bound
    THEN upsert_link(set_lldp_hostname(s, d, nb), d, i, name, nb, NULL, dd_id)
    ELSE s

\* Leave the iteration of index loop[d].i: next row of if_descr.items(), or the
\* end of the for loop.
next_pc(d) == IF loop[d].i = loop[d].n THEN "finish" ELSE "loop"
next_loop(d) == [loop EXCEPT ![d].i = @ + 1]

\* Mutant of wants_discovered: the find-or-create is made for every named
\* neighbor.
wants_discovered_by_name(ndev, nb) == nb.neighbor_name # NoName

\* "if not neighbor_device and neighbor_name"
wants_discovered(ndev, nb) == ndev = NULL /\ nb.neighbor_name # NoName

\* What device d's LLDP tables can hold for an index: any neighbor but the
\* device itself.
neighbors_of(d) == {nb \in Neighbors : nb.neighbor_ip # d}

\* One iteration of `for full_oid, name_val in if_descr.items()`, up to the
\* flush of a new DiscoveredDevice.  name is the decoded ifDescr, decoded says
\* whether the int() conversions of the row's status and counters succeed (a
\* ValueError skips the iteration before the upsert and before neighbors is
\* read), nb is neighbors.get(index).
process_index(d) ==
    /\ pc[d] = "loop"
    /\ event_loop_free(d)
    /\ \E name \in IfNames, decoded \in BOOLEAN, nb \in neighbors_of(d) :
        LET i == loop[d].i
            s1 == upsert_interface(sess[d], d, i, name)
            ndev == neighbor_device(nb.neighbor_ip)
            hit == {r \in vis_discovered(d) : r.lldp_hostname = nb.neighbor_name}
        IN
        /\ walked' = [walked EXCEPT ![d] = Append(@, [name |-> name, decoded |-> decoded,
                       nb |-> IF decoded THEN nb ELSE NoNeighbor])]
        /\ IF ~decoded
           THEN /\ pc' = [pc EXCEPT ![d] = next_pc(d)]
                /\ loop' = next_loop(d)
                /\ UNCHANGED <<sess, ins, tried>>
           ELSE IF ~nb.present
           THEN /\ sess' = [sess EXCEPT ![d] = s1]
                /\ pc' = [pc EXCEPT ![d] = next_pc(d)]
                /\ loop' = next_loop(d)
                /\ UNCHANGED <<ins, tried>>
           ELSE IF wants_discovered(ndev, nb)
           THEN /\ tried' = [tried EXCEPT ![d] = @ \cup {nb.neighbor_name}]
                /\ IF hit # {}
                   THEN /\ sess' = [sess EXCEPT ![d] =
                               after_discovered(
                                   [s1 EXCEPT !.ddSeen = @ \cup {(CHOOSE r \in hit : TRUE).id}],
                                   d, i, name, nb, (CHOOSE r \in hit : TRUE).id)]
                        /\ pc' = [pc EXCEPT ![d] = next_pc(d)]
                        /\ loop' = next_loop(d)
                        /\ UNCHANGED ins
                   ELSE /\ sess' = [sess EXCEPT ![d] = s1]
                        /\ pc' = [pc EXCEPT ![d] = "flush"]
                        /\ ins' = [ins EXCEPT ![d] = [name |-> name, nb |-> nb]]
                        /\ UNCHANGED loop
           ELSE /\ sess' = [sess EXCEPT ![d] = upsert_link(s1, d, i, name, nb, ndev, NULL)]
                /\ pc' = [pc EXCEPT ![d] = next_pc(d)]
                /\ loop' = next_loop(d)
                /\ UNCHANGED <<ins, tried>>
    /\ UNCHANGED <<cycle, db, dead, outcome, ping>>
    /\ UNCHANGED <<fleet, inventory, reply>>

\* The UNIQUE index of DiscoveredDevice.lldp_hostname: the open transactions
\* of other tasks that have inserted the name, and whether it is committed.
holders(d) ==
    {e \in Dev \ {d} : \E r \in sess[e].dd : r.lldp_hostname = ins[d].nb.neighbor_name}

\* Mutant of lldp_hostname_taken: the column has no UNIQUE index.
lldp_hostname_never_taken(nm) == FALSE

lldp_hostname_taken(nm) == \E r \in discovered : r.lldp_hostname = nm

\* A failed flush: the exception is caught by the per-interface handler, the
\* transaction is gone, every later statement of the session raises, and the
\* execute before the commit takes the task to the session-level handler.
flush_failed(d) ==
    /\ sess' = [sess EXCEPT ![d] = EmptySess]
    /\ dead' = [dead EXCEPT ![d] = TRUE]
    /\ pc' = [pc EXCEPT ![d] = "finish"]
    /\ ins' = [ins EXCEPT ![d] = NoInsert]
    /\ UNCHANGED loop

\* Two flushes that wait for each other's transaction: the database aborts
\* one of them, whose flush raises.
deadlocked(d) == \E e \in holders(d) : pc[e] = "flush" /\ d \in holders(e)

\* session.add(discovered_device); await session.flush()
flush_discovered(d) ==
    /\ pc[d] = "flush"
    /\ event_loop_free(d)
    /\ holders(d) = {} \/ deadlocked(d)
    /\ LET nb == ins[d].nb
           i == loop[d].i
           row == [id |-> RowId(d, i), lldp_hostname |-> nb.neighbor_name,
                   first_seen |-> cycle, last_seen |-> cycle]
       IN IF deadlocked(d) \/ lldp_hostname_taken(nb.neighbor_name)
          THEN flush_failed(d)
          ELSE /\ sess' = [sess EXCEPT ![d] =
                      after_discovered([@ EXCEPT !.dd = @ \cup {row}],
                                       d, i, ins[d].name, nb, row.id)]
               /\ pc' = [pc EXCEPT ![d] = next_pc(d)]
               /\ loop' = next_loop(d)
               /\ ins' = [ins EXCEPT ![d] = NoInsert]
               /\ UNCHANGED dead
    /\ UNCHANGED <<cycle, db, hist, ping>>
    /\ UNCHANGED <<fleet, inventory, reply>>

\* Mutant of commit_session: the status is set, last_seen is left as it was.
commit_session_keeps_last_seen(d) ==
    /\ interfaces' = interfaces \cup sess[d].ifaces
    /\ stats' = stats \cup sess[d].stats
    /\ discovered' = refreshed(discovered, sess[d].ddSeen) \cup sess[d].dd
    /\ links' = refreshed(links, sess[d].linkSeen) \cup sess[d].links
    /\ devices' = [devices EXCEPT ![d].status = "up"]

\* After the loop: status up, last_seen now, commit; rollback on failure.
commit_session(d) ==
    /\ interfaces' = interfaces \cup sess[d].ifaces
    /\ stats' = stats \cup sess[d].stats
    /\ discovered' = refreshed(discovered, sess[d].ddSeen) \cup sess[d].dd
    /\ links' = refreshed(links, sess[d].linkSeen) \cup sess[d].links
    /\ devices' = [devices EXCEPT
                       ![d].status = "up",
                       ![d].last_seen = cycle,
                       ![d].lldp_hostname = IF sess[d].lldp_hostname # None
                                            THEN sess[d].lldp_hostname ELSE @]

\* Mutant of rollback_session: the rows flushed before the commit stay.
rollback_keeps_flushed(d) ==
    /\ interfaces' = interfaces \cup sess[d].ifaces
    /\ discovered' = discovered \cup sess[d].dd
    /\ UNCHANGED <<devices, stats, links>>

\* session.rollback(): the transaction's INSERTs and UPDATEs, flushed or not,
\* are discarded.
rollback_session(d) == UNCHANGED db

finish(d) ==
    /\ pc[d] = "finish"
    /\ event_loop_free(d)
    /\ IF dead[d]
       THEN /\ outcome' = [outcome EXCEPT ![d] = "rolledback"]
            /\ rollback_session(d)
       ELSE \E commit_ok \in BOOLEAN :
              IF commit_ok
              THEN /\ commit_session(d)
                   /\ outcome' = [outcome EXCEPT ![d] = "committed"]
              ELSE /\ outcome' = [outcome EXCEPT ![d] = "commitfailed"]
                   /\ rollback_session(d)
    /\ sess' = [sess EXCEPT ![d] = EmptySess]
    /\ dead' = [dead EXCEPT ![d] = FALSE]
    /\ pc' = task_ends(pc, d)
    /\ UNCHANGED <<cycle, loop, ins, walked, tried, ping>>
    /\ UNCHANGED <<fleet, inventory, reply>>

\* ------------------------------------------------ the scheduler, by counts
\* poll_all_devices over a fleet of NumFleet devices, its tasks counted by
\* position: probes waiting for / inside ping_sem, sem_tasks waiting for sem,
\* inside sem at the status check, and inside poll_device.

\* async_ping is a coroutine without an await: a probe, once started, runs
\* its blocking connects to the end before the event loop runs another task.
async_ping_yields == FALSE

\* Mutant of top_level_error: the while loop has no handler, the exception
\* ends poll_all_devices.
top_level_unhandled == "exited"

\* An exception inside the try of the while loop is logged by the handler of
\* the loop body; control goes on to the sleep.
top_level_error == "sleep"

FleetInit ==
    /\ cycle = 0
    /\ devices = [d \in Dev |-> NewDevice]
    /\ interfaces = {}
    /\ stats = {}
    /\ discovered = {}
    /\ links = {}
    /\ pc = [d \in Dev |-> "done"]
    /\ loop = [d \in Dev |-> [n |-> 0, i |-> 0]]
    /\ ins = [d \in Dev |-> NoInsert]
    /\ sess = [d \in Dev |-> EmptySess]
    /\ dead = [d \in Dev |-> FALSE]
    /\ walked = [d \in Dev |-> <<>>]
    /\ tried = [d \in Dev |-> {}]
    /\ outcome = [d \in Dev |-> "none"]
    /\ ping = NoPing
    /\ fleet = FleetIdle
    /\ inventory = NoInventory
    /\ reply = NoCall

main == <<cycle, devices, interfaces, stats, discovered, links, pc, loop,
          ins, sess, dead, walked, tried, outcome, ping>>

\* The top of the while loop: the inventory snapshot.  When the query raises,
\* no task of this pass is created.
snapshot ==
    /\ fleet.phase = "top"
    /\ \E ok \in BOOLEAN :
        fleet' = IF ok
                 THEN [fleet EXCEPT !.phase = "A", !.ping_waiting = NumFleet]
                 ELSE [fleet EXCEPT !.phase = top_level_error, !.err = "snapshot"]
    /\ UNCHANGED <<main, inventory, reply>>

\* ping_worker: `async with ping_sem`, then the probe starts.
ping_worker_start ==
    /\ fleet.phase = "A"
    /\ fleet.ping_waiting > 0
    /\ slot_free(ping_concurrency, fleet.ping_running)
    /\ async_ping_yields \/ fleet.ping_running = 0
    /\ fleet' = [fleet EXCEPT !.ping_waiting = @ - 1, !.ping_running = @ + 1]
    /\ UNCHANGED <<main, inventory, reply>>

\* ping_worker: async_ping returned or raised (the worker then answers
\* False); the slot is released.
ping_worker_return ==
    /\ fleet.ping_running > 0
    /\ \E raised \in BOOLEAN :
        fleet' = [fleet EXCEPT !.ping_running = @ - 1,
                               !.err = IF raised THEN "probe" ELSE @]
    /\ UNCHANGED <<main, inventory, reply>>

\* Mutant of gathered: the gather is not awaited, control goes on while the
\* tasks run.
gathered_at_once(unfinished) == TRUE

\* `await asyncio.gather(*tasks)` returns when every task it was given has
\* finished; no task body lets an exception or a cancellation out before.
gathered(unfinished) == unfinished = 0

\* gather(*ping_tasks) returned; the batch status update commits or is rolled
\* back; the sem_tasks of all devices of the snapshot are created.
sweep_start ==
    /\ fleet.phase = "A"
    /\ gathered(fleet.ping_waiting + fleet.ping_running)
    /\ \E commit_ok \in BOOLEAN :
        fleet' = [fleet EXCEPT !.phase = "B", !.waiting = NumFleet,
                               !.err = IF commit_ok THEN @ ELSE "update"]
    /\ UNCHANGED <<main, inventory, reply>>

\* sem_task: `async with sem`.
sweep_acquire ==
    /\ fleet.phase = "B"
    /\ fleet.waiting > 0
    /\ slot_free(max_concurrency, fleet.checking + fleet.polling)
    /\ fleet' = [fleet EXCEPT !.waiting = @ - 1, !.checking = @ + 1]
    /\ UNCHANGED <<main, inventory, reply>>

\* sem_task: the status query returned or raised; a down device and a task
\* whose query raised leave the pool, any other enters poll_device.
sweep_check ==
    /\ fleet.checking > 0
    /\ \E down \in BOOLEAN, raised \in BOOLEAN :
        fleet' = [fleet EXCEPT !.checking = @ - 1,
                               !.polling = IF down \/ raised THEN @ ELSE @ + 1,
                               !.err = IF raised THEN "worker" ELSE @]
    /\ UNCHANGED <<main, inventory, reply>>

\* poll_device returned, with or without an error of its own; the slot is
\* released.
sweep_return ==
    /\ fleet.polling > 0
    /\ \E failed \in BOOLEAN :
        fleet' = [fleet EXCEPT !.polling = @ - 1,
                               !.err = IF failed THEN "worker" ELSE @]
    /\ UNCHANGED <<main, inventory, reply>>

\* gather(*tasks) returned: the pass goes on to the sleep.
sweep_end ==
    /\ fleet.phase = "B"
    /\ gathered(fleet.waiting + fleet.checking + fleet.polling)
    /\ fleet' = [fleet EXCEPT !.phase = "sleep"]
    /\ UNCHANGED <<main, inventory, reply>>

\* asyncio.sleep(interval) returned: the next pass of the while loop.
sleep_return ==
    /\ fleet.phase = "sleep"
    /\ fleet' = [fleet EXCEPT !.phase = "top", !.prev = fleet.err, !.err = "none"]
    /\ UNCHANGED <<main, inventory, reply>>

FleetNext ==
    \/ snapshot
    \/ ping_worker_start
    \/ ping_worker_return
    \/ sweep_start
    \/ sweep_acquire
    \/ sweep_check
    \/ sweep_return
    \/ sweep_end
    \/ sleep_return

SpecFleet == FleetInit /\ [][FleetNext]_vars

\* Every probe, protocol call, database call and the sleep return, and the
\* event loop runs what is ready.
FairFleet == SpecFleet /\ WF_vars(FleetNext)

\* ---------------------------------------------------------- backfill_links
digits == {"0", "1", "2", "3", "4", "5", "6", "7", "8", "9"}
hex_digits == digits \cup {"a", "b", "c", "d", "e", "f", "A", "B", "C", "D", "E", "F"}

\* str.lower(), letter by letter.
lower_of ==
    LET upper_letters == <<"A", "B", "C", "D", "E", "F", "G", "H", "I", "J", "K", "L", "M",
                           "N", "O", "P", "Q", "R", "S", "T", "U", "V", "W", "X", "Y", "Z">>
        lower_letters == <<"a", "b", "c", "d", "e", "f", "g", "h", "i", "j", "k", "l", "m",
                           "n", "o", "p", "q", "r", "s", "t", "u", "v", "w", "x", "y", "z">>
    IN [c \in {upper_letters[k] : k \in 1..26} |->
           lower_letters[CHOOSE k \in 1..26 : upper_letters[k] = c]]

lower(s) == [k \in 1..Len(s) |-> IF s[k] \in DOMAIN lower_of THEN lower_of[s[k]] ELSE s[k]]

\* The least element of a set of positions, 0 when there is none.
first(ps) == IF ps = {} THEN 0 ELSE CHOOSE p \in ps : \A q \in ps : p <= q

\* str.strip()
strip(s) ==
    LET kept == {k \in 1..Len(s) : s[k] \notin {" ", "\t", "\n"}}
    IN IF kept = {} THEN <<>>
       ELSE SubSeq(s, first(kept), CHOOSE k \in kept : \A j \in kept : j <= k)

\* `part in s`
contains(part, s) ==
    \E p \in 0..(Len(s) - Len(part)) : SubSeq(s, p + 1, p + Len(part)) = part

\* s.endswith(tail)
endswith(s, tail) ==
    /\ Len(tail) <= Len(s)
    /\ SubSeq(s, Len(s) - Len(tail) + 1, Len(s)) = tail

\* s.split(".", 1)[0]
before_dot(s) ==
    LET p == first({k \in 1..Len(s) : s[k] = "."})
    IN IF p = 0 THEN s ELSE SubSeq(s, 1, p - 1)

\* The greedy \d{1,3} at position p: the run of digits there, three at most.
octet_len(s, p) ==
    IF ~(p <= Len(s) /\ s[p] \in digits) THEN 0
    ELSE IF ~(p + 1 <= Len(s) /\ s[p + 1] \in digits) THEN 1
    ELSE IF ~(p + 2 <= Len(s) /\ s[p + 2] \in digits) THEN 2
    ELSE 3

dot_at(s, p) == p <= Len(s) /\ s[p] = "."

\* The match of (\d{1,3}(?:\.\d{1,3}){3}) that starts at p, <<>> when there
\* is none.  A shorter first, second or third group never helps: what follows
\* it would be a digit, not the dot.
ip_at(s, p) ==
    LET a == octet_len(s, p)
        b == octet_len(s, p + a + 1)
        c == octet_len(s, p + a + b + 2)
        d == octet_len(s, p + a + b + c + 3)
    IN IF /\ a > 0 /\ dot_at(s, p + a)
          /\ b > 0 /\ dot_at(s, p + a + b + 1)
          /\ c > 0 /\ dot_at(s, p + a + b + c + 2)
          /\ d > 0
       THEN SubSeq(s, p, p + a + b + c + d + 2)
       ELSE <<>>

\* re.search of the address pattern: the leftmost match.
ip_search(s) ==
    LET p == first({q \in 1..Len(s) : ip_at(s, q) # <<>>})
    IN IF p = 0 THEN <<>> ELSE ip_at(s, p)

\* re.search(r"([0-9A-Fa-f]{12})", s).group(1).lower(): the leftmost run of
\* twelve hex digits, <<>> when there is none.
hex12_search(s) ==
    LET p == first({q \in 1..(Len(s) - 11) : \A k \in 0..11 : s[q + k] \in hex_digits})
    IN IF p = 0 THEN <<>> ELSE lower(SubSeq(s, p, p + 11))

is_hex(c) == c \in hex_digits

normalize_mac(s) == IF s = None \/ s = <<>> THEN <<>> ELSE lower(SelectSeq(s, is_hex))

\* Python's truth of an Optional[str].
truthy(s) == s # None /\ s # <<>>

\* The link labels (topology_links.dst_hostname) of the stored tables.
L_exact == <<"S", "W", "1">>
L_adapter == <<"s", "w", "1", " ", "A", "d", "a", "p", "t", "e", "r", " ", "#", "3">>
Labels ==
    {None,
     <<>>,
     L_exact,
     <<" ", "s", "w", "1", " ">>,
     <<"s", "w", "1", ".", "l", "a", "b">>,
     <<"m", "y", "-", "s", "w", "1">>,
     <<"w", "1">>,
     <<"a", "t", " ", "1", "0", ".", "0", ".", "0", ".", "2">>,
     <<"S", "E", "P", "0", "0", "1", "1", "2", "2", "3", "3", "4", "4", "5", "5", ".", "l", "a", "b">>,
     <<"B", "E", "0", "0", "1", "1", "2", "2", "3", "3", "4", "4", "5", "5">>,
     L_adapter,
     <<"F", "W", "_", "V", "E", "R", "S", "I", "O", "N", " ", "1", "0", ".", "0", ".", "0", ".", "2">>,
     <<"e", "d", "g", "e", "9">>}

\* The inventories the endpoint is followed on.
Inventories ==
    {[devices |-> <<D_sw1, D_r2, D_lab>>, ifaces |-> <<I_sw1, I_r2>>],
     [devices |-> <<D_lab, D_r2, D_sw1>>, ifaces |-> <<I_r2, I_sw1>>],
     \* a device whose hostname is the empty string
     [devices |-> <<D_sw1, [D_r2 EXCEPT !.hostname = <<>>]>>, ifaces |-> <<I_r2>>],
     \* a device whose hostname is NULL
     [devices |-> <<D_sw1,
                    [id |-> 4, hostname |-> None,
                     ip_address |-> <<"1", "0", ".", "0", ".", "0", ".", "4">>],
                    D_r2>>,
      ifaces |-> <<I_r2>>]}

\* The non-device markers of a label.
markers == {<<"a", "d", "a", "p", "t", "e", "r">>,
            <<"f", "w", "_", "v", "e", "r", "s", "i", "o", "n">>,
            <<"f", "i", "r", "m", "w", "a", "r", "e">>}

\* Mutant of is_excluded: the markers are looked for in the label as written.
is_excluded_as_written(dst_name) ==
    dst_name # <<>> /\ \E m \in markers : contains(m, dst_name)

\* "Skip obvious non-device strings"
is_excluded(dst_name) ==
    dst_name # <<>> /\ \E m \in markers : contains(m, lower(dst_name))

NoMatch == [kind |-> "none", device |-> NULL, strategy |-> 0, reason |-> "", detail |-> <<>>]
Raised == [kind |-> "raise", device |-> NULL, strategy |-> 3, reason |-> "", detail |-> <<>>]
Skipped == [kind |-> "skip", device |-> NULL, strategy |-> 0, reason |-> "", detail |-> <<>>]

hit(dev, strategy, reason, detail) ==
    [kind |-> "hit", device |-> dev, strategy |-> strategy, reason |-> reason,
     detail |-> detail]

\* 1) exact hostname match (case-insensitive)
exact(devs, dst_name) ==
    LET k == first({j \in DOMAIN devs :
                      truthy(devs[j].hostname) /\ lower(devs[j].hostname) = lower(dst_name)})
    IN IF k = 0 THEN NoMatch ELSE hit(devs[k], 1, "exact", <<>>)

\* 2) short hostname (prefix before first dot)
short(devs, dst_name) ==
    LET k == first({j \in DOMAIN devs :
                      /\ truthy(devs[j].hostname)
                      /\ lower(devs[j].hostname) = lower(before_dot(dst_name))})
    IN IF ~contains(<<".">>, dst_name) \/ k = 0 THEN NoMatch
       ELSE hit(devs[k], 2, "short", <<>>)

\* 3) substring: what the loop body does for one device.  The second test
\* calls lower() on the hostname without the guard of the first: a NULL
\* hostname raises AttributeError, which nothing in the endpoint catches.
contains_step(d, dst_name) ==
    IF truthy(d.hostname) /\ contains(lower(d.hostname), lower(dst_name))
    THEN "contains_dst"
    ELSE IF d.hostname = None THEN "raise"
    ELSE IF contains(lower(dst_name), lower(d.hostname)) THEN "contains_dev"
    ELSE "next"

contains_hostname(devs, dst_name) ==
    LET k == first({j \in DOMAIN devs : contains_step(devs[j], dst_name) # "next"})
    IN IF k = 0 THEN NoMatch
       ELSE IF contains_step(devs[k], dst_name) = "raise" THEN Raised
       ELSE hit(devs[k], 3, contains_step(devs[k], dst_name), <<>>)

\* 4) IP inside dst_name
ip_inside(devs, dst_name) ==
    LET ip == ip_search(dst_name)
        k == first({j \in DOMAIN devs :
                      truthy(devs[j].ip_address) /\ devs[j].ip_address = ip})
    IN IF ip = <<>> \/ k = 0 THEN NoMatch ELSE hit(devs[k], 4, "ip", ip)

\* session.get(Device, iface.device_id): the position of the device of that
\* id, 0 when the answer is None.
get_device(devs, id) == first({j \in DOMAIN devs : devs[j].id = id})

\* 5) 12-hex MAC-like inside dst_name
mac_inside(inv, dst_name) ==
    LET hexstr == hex12_search(dst_name)
        k == first({j \in DOMAIN inv.ifaces :
                      \/ endswith(normalize_mac(inv.ifaces[j].mac_address), hexstr)
                      \/ normalize_mac(inv.ifaces[j].mac_address) = hexstr})
    IN IF hexstr = <<>> \/ k = 0 THEN NoMatch
       ELSE IF get_device(inv.devices, inv.ifaces[k].device_id) = 0 THEN NoMatch
       ELSE hit(inv.devices[get_device(inv.devices, inv.ifaces[k].device_id)], 5, "mac", hexstr)

\* The body of `for link in links` up to `if candidate`: the candidate and
\* its reason for one link label.
candidate_for(inv, label) ==
    LET dst_name == strip(IF label = None THEN <<>> ELSE label)
        devs == inv.devices
    IN IF is_excluded(dst_name) THEN Skipped
       ELSE IF dst_name = <<>> THEN NoMatch
       ELSE IF exact(devs, dst_name) # NoMatch THEN exact(devs, dst_name)
       ELSE IF short(devs, dst_name) # NoMatch THEN short(devs, dst_name)
       ELSE IF contains_hostname(devs, dst_name) # NoMatch THEN contains_hostname(devs, dst_name)
       ELSE IF ip_inside(devs, dst_name) # NoMatch THEN ip_inside(devs, dst_name)
       ELSE mac_inside(inv, dst_name)

\* The loop body's answer for every inventory and label of the stored tables,
\* tabulated.
candidates ==
    [inv \in Inventories \cup {Managed} |-> [label \in Labels |-> candidate_for(inv, label)]]

\* link.dst_device_id = candidate.id
\* link.dst_hostname = candidate.hostname or link.dst_hostname
resolve(l, c) ==
    [l EXCEPT !.dst_device_id = c.device.id,
              !.dst_hostname = IF truthy(c.device.hostname) THEN c.device.hostname ELSE @]

\* The links missing dst_device_id.
unresolved == {l \in links : l.dst_device_id = NULL}

\* links[:limit]: every selected row when limit is 0, else limit of them.
limited(limit) ==
    IF limit = 0 THEN {unresolved}
    ELSE {p \in SUBSET unresolved :
            Cardinality(p) = limit \/ (p = unresolved /\ Cardinality(p) < limit)}

suggestion(l, c) ==
    [link_id |-> l.id, dst_hostname |-> l.dst_hostname,
     matched_device_id |-> c.device.id, matched_device_hostname |-> c.device.hostname,
     strategy |-> c.strategy, reason |-> c.reason, detail |-> c.detail]

\* Mutant of persisted: the commit reports success and stores nothing.
persisted_nothing(before, after, dry_run, commit_ok) == before

\* Mutant of persisted: a failed commit leaves the updates of the batch.
persisted_despite_failure(before, after, dry_run, commit_ok) ==
    IF dry_run THEN before ELSE after

\* What the table holds when the request is over: the attribute changes are
\* made and committed unless dry_run, and a failed commit is rolled back.
persisted(before, after, dry_run, commit_ok) ==
    IF ~dry_run /\ commit_ok THEN after ELSE before

\* POST /backfill, the nth request.  A request whose loop raises ends with the
\* session closed and nothing committed, and returns no body.  first is the
\* record of the request before.
post_backfill(nth) ==
    /\ \E dry_run \in BOOLEAN, commit_ok \in BOOLEAN, limit \in 0..MaxLimit :
       \E picked \in limited(limit) :
        LET candidate == [l \in picked |-> candidates[inventory][l.dst_hostname]]
            found == {l \in picked : candidate[l].kind = "hit"}
            raised == \E l \in picked : candidate[l].kind = "raise"
            after == {IF l \in found THEN resolve(l, candidate[l]) ELSE l : l \in links}
        IN IF raised
           THEN /\ links' = links
                /\ reply' = [fn |-> "backfill_links", status |-> "raised",
                             run |-> nth, first |-> reply,
                             dry_run |-> dry_run, committed |-> FALSE,
                             picked |-> picked, before |-> links,
                             processed |-> 0, updated |-> 0, suggestions |-> {}]
           ELSE /\ links' = persisted(links, after, dry_run, commit_ok)
                /\ reply' = [fn |-> "backfill_links", status |-> "ok",
                             run |-> nth, first |-> reply,
                             dry_run |-> dry_run, committed |-> ~dry_run /\ commit_ok,
                             picked |-> picked, before |-> links,
                             processed |-> Cardinality(picked),
                             updated |-> IF dry_run THEN 0 ELSE Cardinality(found),
                             suggestions |-> {suggestion(l, candidate[l]) : l \in found}]
    /\ UNCHANGED <<cycle, devices, interfaces, stats, discovered, pc, loop,
                   ins, sess, dead, hist, ping>>
    /\ UNCHANGED <<fleet, inventory>>

\* A request to POST /backfill, and a second one that finds the tables as the
\* first left them.
backfill_links ==
    /\ reply = NoCall
    /\ post_backfill(1)

backfill_links_again ==
    /\ reply.fn = "backfill_links"
    /\ reply.run = 1
    /\ post_backfill(2)

\* ------------------------------------------------- poller and endpoint
\* The poller's cycles.
Next ==
    \/ PhaseA
    \/ \E d \in Dev : sem_acquire(d)
    \/ \E d \in Dev : sem_task(d)
    \/ \E d \in Dev : poll_device(d)
    \/ \E d \in Dev : process_index(d)
    \/ \E d \in Dev : flush_discovered(d)
    \/ \E d \in Dev : finish(d)

Spec == Init /\ [][Next]_vars

\* The poller's cycles, and a request to POST /backfill served meanwhile on
\* the same tables.
NextServed == Next \/ backfill_links

SpecServed == Init /\ [][NextServed]_vars

\* The steps of device d's task.  The event loop runs every task that is
\* ready, and every probe, protocol call and database call returns.
Worker(d) ==
    \/ sem_acquire(d)
    \/ sem_task(d)
    \/ poll_device(d)
    \/ process_index(d)
    \/ flush_discovered(d)
    \/ finish(d)

FairSpec == Spec /\ \A d \in Dev : WF_vars(Worker(d))

\* The walks of device 1 may wait for their timeout without end; every other
\* step of every task is taken when it is ready.
SlowWalk ==
    /\ Spec
    /\ WF_vars(Worker(1) /\ pc[1] # "walk")
    /\ \A d \in Dev \ {1} : WF_vars(Worker(d))

\* A stored DiscoveredDevice, announced as "SW1".
DD_sw1 == [id |-> 7, lldp_hostname |-> L_exact, first_seen |-> 0, last_seen |-> 0]

\* A stored TopologyLink.
stored_link(id, label, dst, dd) ==
    [id |-> id, src_device_id |-> 1, src_interface |-> 1,
     dst_device_id |-> dst, dst_discovered_device_id |-> dd,
     dst_interface |-> "p1", dst_hostname |-> label, last_seen |-> 0]

\* What a stored link may be: without destination and with any label, resolved
\* to device 1, or resolved to the DiscoveredDevice.
LinkShapes ==
    [label : Labels, dst : {NULL}, dd : {NULL}]
        \cup {[label |-> L_exact, dst |-> 1, dd |-> NULL],
              [label |-> L_exact, dst |-> NULL, dd |-> DD_sw1.id]}

\* The tables the endpoint may find: 1 to MaxLinks links.
LinkTables ==
    UNION {{{stored_link(id, f[id].label, f[id].dst, f[id].dd) : id \in 1..n} :
              f \in [1..n -> LinkShapes]} : n \in 1..MaxLinks}

BackfillInit ==
    /\ cycle = 0
    /\ devices = [d \in Dev |-> NewDevice]
    /\ interfaces = {}
    /\ stats = {}
    /\ discovered = {DD_sw1}
    /\ links \in LinkTables
    /\ pc = [d \in Dev |-> "done"]
    /\ loop = [d \in Dev |-> [n |-> 0, i |-> 0]]
    /\ ins = [d \in Dev |-> NoInsert]
    /\ sess = [d \in Dev |-> EmptySess]
    /\ dead = [d \in Dev |-> FALSE]
    /\ walked = [d \in Dev |-> <<>>]
    /\ tried = [d \in Dev |-> {}]
    /\ outcome = [d \in Dev |-> "none"]
    /\ ping = NoPing
    /\ fleet = FleetIdle
    /\ inventory \in Inventories
    /\ reply = NoCall

SpecBackfill == BackfillInit /\ [][backfill_links \/ backfill_links_again]_vars

\* ------------------------------------------------------ format_mac_address
\* The characters of the string inputs and their code points; "NUL" stands for
\* the character of code 0, "EURO" for one outside latin-1.
code == [c \in {"NUL", " ", ":", "a", "A", "b", "f", "F", "0", "1", "EURO"} |->
            CASE c = "NUL" -> 0 [] c = " " -> 32 [] c = ":" -> 58
              [] c = "a" -> 97 [] c = "A" -> 65 [] c = "b" -> 98 [] c = "f" -> 102
              [] c = "F" -> 70 [] c = "0" -> 48 [] c = "1" -> 49 [] c = "EURO" -> 8364]

hex_chars == <<"0", "1", "2", "3", "4", "5", "6", "7", "8", "9",
               "a", "b", "c", "d", "e", "f">>

\* f"{byte:02x}"
two_hex(byte) == <<hex_chars[(byte \div 16) + 1], hex_chars[(byte % 16) + 1]>>

\* ":".join(hex_parts) for the six bytes of bs
colon_hex(bs) ==
    two_hex(bs[1]) \o <<":">> \o two_hex(bs[2]) \o <<":">> \o two_hex(bs[3]) \o <<":">>
        \o two_hex(bs[4]) \o <<":">> \o two_hex(bs[5]) \o <<":">> \o two_hex(bs[6])

\* Mutant of long_enough: a strict comparison.
longer_than_six(mac_bytes) == Len(mac_bytes) > 6

\* len(mac_bytes) >= 6
long_enough(mac_bytes) == Len(mac_bytes) >= 6

\* "Convert bytes to hex format with colons"
hex_format(mac_bytes) ==
    IF long_enough(mac_bytes) THEN colon_hex(SubSeq(mac_bytes, 1, 6)) ELSE None

not_nul(c) == c # "NUL"

\* mac_value is None, a byte string (kind "bytes", a sequence of 0..255) or a
\* str (kind "str", a sequence of characters).  encode('latin-1') raises for
\* a character above 255, which the handler answers with None.
format_mac_address(mac_value) ==
    IF mac_value.kind = "none" \/ mac_value.val = <<>> THEN None
    ELSE IF mac_value.kind = "str"
    THEN LET v == strip(SelectSeq(mac_value.val, not_nul))
         IN IF v = <<>> THEN None
            ELSE IF \E k \in 1..Len(v) : v[k] = ":" THEN v
            ELSE IF \E k \in 1..Len(v) : code[v[k]] > 255 THEN None
            ELSE hex_format([k \in 1..Len(v) |-> code[v[k]]])
    ELSE hex_format(mac_value.val)

\* The inputs: None, the byte strings over three byte values and the strings
\* over four characters up to MaxMacLen long, two formatted addresses and a
\* string that latin-1 cannot encode.
sequences_over(S) == UNION {[1..n -> S] : n \in 0..MaxMacLen}

S_formatted == <<"a", "a", ":", "b", "b", ":", "0", "0", ":", "0", "1", ":", "f", "f", ":", "1", "0">>

MacInputs ==
    {[kind |-> "none", val |-> <<>>]}
    \cup [kind : {"bytes"}, val : sequences_over({0, 170, 255})]
    \cup [kind : {"str"}, val : sequences_over({"NUL", " ", ":", "a"})
                                  \cup {S_formatted,
                                        <<"A", "A", ":", "B", "B", ":", "0", "0", ":",
                                          "0", "1", ":", "F", "F", ":", "1", "0">>,
                                        <<"a", "a", "a", "a", "a", "EURO">>}]

MacInit ==
    /\ cycle = 0
    /\ devices = [d \in Dev |-> NewDevice]
    /\ interfaces = {}
    /\ stats = {}
    /\ discovered = {}
    /\ links = {}
    /\ pc = [d \in Dev |-> "done"]
    /\ loop = [d \in Dev |-> [n |-> 0, i |-> 0]]
    /\ ins = [d \in Dev |-> NoInsert]
    /\ sess = [d \in Dev |-> EmptySess]
    /\ dead = [d \in Dev |-> FALSE]
    /\ walked = [d \in Dev |-> <<>>]
    /\ tried = [d \in Dev |-> {}]
    /\ outcome = [d \in Dev |-> "none"]
    /\ ping = NoPing
    /\ fleet = FleetIdle
    /\ inventory = NoInventory
    /\ \E mac_value \in MacInputs :
          reply = [fn |-> "format_mac_address", arg |-> mac_value,
                   returned |-> FALSE, result |-> None]

\* mac = format_mac_address(mac_raw)
format_mac ==
    /\ reply.fn = "format_mac_address"
    /\ ~reply.returned
    /\ reply' = [reply EXCEPT !.returned = TRUE,
                               !.result = format_mac_address(reply.arg)]
    /\ UNCHANGED <<main, fleet, inventory>>

SpecMac == MacInit /\ [][format_mac]_vars

\* ---------------------------------------------------------------- snmp_walk
\* What run_walk hands back: the transport raises, or list(iterator) is a
\* sequence of rows (errInd, errStat, errIdx, varBinds).  errInd is None or an
\* error object, errStat an integer that is 0 when there is no error, varBinds
\* a list of (oid, value) pairs.
Oids == {"1.1", "1.2"}
WalkInputs ==
    LET WalkRows ==
            [errInd : BOOLEAN, errStat : {0, 5},
             varBinds : {<<>>} \cup {<<[oid |-> o, value |-> v]>> :
                                        o \in Oids, v \in {"a", "b"}}]
    IN [raises : {TRUE}, rows : {<<>>}]
           \cup [raises : {FALSE}, rows : UNION {[1..n -> WalkRows] : n \in 0..MaxRows}]

\* results[str(oid_val)] = value, for every pair of the row.
RECURSIVE put(_, _, _)
put(results, varBinds, k) ==
    IF k > Len(varBinds) THEN results
    ELSE put([o \in DOMAIN results \cup {varBinds[k].oid} |->
                 IF o = varBinds[k].oid THEN varBinds[k].value ELSE results[o]],
             varBinds, k + 1)

\* Mutant of row_error: the rows collected before the error are returned.
row_error_partial(results) == [kind |-> "map", val |-> results]

\* `if errInd or errStat: return None`
row_error(results) == [kind |-> "none"]

RECURSIVE collect(_, _, _)
collect(walk_results, k, results) ==
    IF k > Len(walk_results) THEN [kind |-> "map", val |-> results]
    ELSE IF walk_results[k].errInd \/ walk_results[k].errStat # 0
    THEN row_error(results)
    ELSE collect(walk_results, k + 1, put(results, walk_results[k].varBinds, 1))

\* The value of the call: None (kind "none") or the dict (kind "map").  An
\* exception of the thread is caught and answered with None; nothing after the
\* try can raise.
snmp_walk(arg) ==
    IF arg.raises THEN [kind |-> "none"] ELSE collect(arg.rows, 1, <<>>)

WalkInit ==
    /\ cycle = 0
    /\ devices = [d \in Dev |-> NewDevice]
    /\ interfaces = {}
    /\ stats = {}
    /\ discovered = {}
    /\ links = {}
    /\ pc = [d \in Dev |-> "done"]
    /\ loop = [d \in Dev |-> [n |-> 0, i |-> 0]]
    /\ ins = [d \in Dev |-> NoInsert]
    /\ sess = [d \in Dev |-> EmptySess]
    /\ dead = [d \in Dev |-> FALSE]
    /\ walked = [d \in Dev |-> <<>>]
    /\ tried = [d \in Dev |-> {}]
    /\ outcome = [d \in Dev |-> "none"]
    /\ ping = NoPing
    /\ fleet = FleetIdle
    /\ inventory = NoInventory
    /\ \E arg \in WalkInputs :
          reply = [fn |-> "snmp_walk", arg |-> arg,
                   returned |-> FALSE, result |-> [kind |-> "none"]]

\* await snmp_walk(target, oid, community)
walk_table ==
    /\ reply.fn = "snmp_walk"
    /\ ~reply.returned
    /\ reply' = [reply EXCEPT !.returned = TRUE, !.result = snmp_walk(reply.arg)]
    /\ UNCHANGED <<main, fleet, inventory>>

SpecWalk == WalkInit /\ [][walk_table]_vars

\* ------------------------------------------- poll_device, the decoded rows
\* The loop of poll_device over one device's ifDescr rows with the columns it
\* decodes, in one session and without LLDP neighbors: row k of the walk has
\* index k and the name k.
interval == 5

\* The raw values of the walks as text, and what int() makes of them; int()
\* raises ValueError for anything else.
int_of == [v \in {"0", "1", "2", "3", "40"} |->
              CASE v = "0" -> 0 [] v = "1" -> 1 [] v = "2" -> 2 [] v = "3" -> 3
                [] v = "40" -> 40]

\* A walk is None or a dict; "missing" says that the dict has no key for the
\* index.
walks_of(raw) ==
    {[kind |-> "none"]} \cup [kind : {"map"}, val : [1..MaxIfaces -> raw \cup {"missing"}]]

\* The values of the ifPhysAddress walk: six bytes, three bytes, or None for a
\* missing key.
mac_of == [v \in {"mac6", "mac3", "missing"} |->
              CASE v = "mac6" -> [kind |-> "bytes", val |-> <<0, 170, 255, 0, 170, 255>>]
                [] v = "mac3" -> [kind |-> "bytes", val |-> <<0, 170, 255>>]
                [] v = "missing" -> [kind |-> "none", val |-> <<>>]]

\* The Interface row of name 1 that an earlier cycle stored.
Iface_old == [status |-> "up", mac_address |-> S_formatted, speed_bps |-> 8]

PollInputs ==
    [n : 1..MaxIfaces,
     if_oper : walks_of({"1", "2", "x"}),
     if_in : walks_of({"40", "x"}),
     if_out : walks_of({"3"}),
     if_mac : walks_of({"mac6", "mac3"}),
     stored : BOOLEAN]

\* `if if_oper`: None and the empty dict are false.
walk_truthy(w) == w.kind = "map" /\ \E k \in DOMAIN w.val : w.val[k] # "missing"

\* Mutant of walk_get: the dict is read without the test `if walk`, and
\* None.get raises AttributeError.
walk_get_unguarded(w, k, default) ==
    IF w.kind = "none" THEN "raise"
    ELSE IF w.val[k] = "missing" THEN default ELSE w.val[k]

\* `walk.get(key, default) if walk else default`
walk_get(w, k, default) ==
    IF ~walk_truthy(w) THEN default
    ELSE IF w.val[k] = "missing" THEN default ELSE w.val[k]

\* Mutant of bit_rate: the quotient is rounded up.
bit_rate_rounded_up(octets) == (octets * 8 + interval - 1) \div interval

\* int((octets * 8 / interval)): the float quotient of a counter that is not
\* negative, cut to an integer.
bit_rate(octets) == (octets * 8) \div interval

\* Lines 325-350 for the row of index k: the decoded columns, or raised.
decode_index(arg, k) ==
    LET oper_raw == walk_get(arg.if_oper, k, "missing")
        in_raw == walk_get(arg.if_in, k, "0")
        out_raw == walk_get(arg.if_out, k, "0")
        mac_raw == walk_get(arg.if_mac, k, "missing")
    IN IF "raise" \in {oper_raw, in_raw, out_raw, mac_raw}
              \/ (oper_raw # "missing" /\ oper_raw \notin DOMAIN int_of)
              \/ in_raw \notin DOMAIN int_of
              \/ out_raw \notin DOMAIN int_of
       THEN [raised |-> TRUE]
       ELSE LET oper_status_val == IF oper_raw = "missing" THEN 2 ELSE int_of[oper_raw]
                in_oct == int_of[in_raw]
                out_oct == int_of[out_raw]
            IN [raised |-> FALSE,
                oper_status |-> IF oper_status_val = 1 THEN "up" ELSE "down",
                in_bps |-> bit_rate(in_oct),
                out_bps |-> bit_rate(out_oct),
                mac |-> format_mac_address(mac_of[mac_raw]),
                speed_bps |-> IF in_oct # 0 THEN (in_oct * 8) \div interval ELSE NULL]

\* Lines 354-372: update the Interface of that name, or create it.  speed_bps
\* NULL stands for None.
upsert_decoded(ifaces, k, row) ==
    IF k \in DOMAIN ifaces
    THEN [ifaces EXCEPT ![k] =
            [status |-> row.oper_status,
             mac_address |-> IF row.mac # None THEN row.mac ELSE @.mac_address,
             speed_bps |-> IF row.speed_bps # NULL THEN row.speed_bps ELSE @.speed_bps]]
    ELSE [j \in DOMAIN ifaces \cup {k} |->
            IF j = k THEN [status |-> row.oper_status, mac_address |-> row.mac,
                           speed_bps |-> row.speed_bps]
            ELSE ifaces[j]]

PollInit ==
    /\ cycle = 0
    /\ devices = [d \in Dev |-> NewDevice]
    /\ interfaces = {}
    /\ stats = {}
    /\ discovered = {}
    /\ links = {}
    /\ pc = [d \in Dev |-> "done"]
    /\ loop = [d \in Dev |-> [n |-> 0, i |-> 0]]
    /\ ins = [d \in Dev |-> NoInsert]
    /\ sess = [d \in Dev |-> EmptySess]
    /\ dead = [d \in Dev |-> FALSE]
    /\ walked = [d \in Dev |-> <<>>]
    /\ tried = [d \in Dev |-> {}]
    /\ outcome = [d \in Dev |-> "none"]
    /\ ping = NoPing
    /\ fleet = FleetIdle
    /\ inventory = NoInventory
    /\ \E arg \in PollInputs :
          reply = [fn |-> "poll_device", arg |-> arg, i |-> 1,
                   ifaces |-> IF arg.stored THEN [j \in {1} |-> Iface_old]
                              ELSE [j \in {} |-> Iface_old],
                   stats |-> {}, raised |-> {},
                   returned |-> FALSE, status |-> "unknown", committed |-> FALSE]

\* One iteration of the for loop: a row that raises is left through the
\* per-interface handler, any other row is upserted and gets its sample.
decode_row ==
    /\ reply.fn = "poll_device"
    /\ ~reply.returned
    /\ reply.i <= reply.arg.n
    /\ LET k == reply.i
           row == decode_index(reply.arg, k)
       IN reply' =
            IF row.raised
            THEN [reply EXCEPT !.i = k + 1, !.raised = @ \cup {k}]
            ELSE [reply EXCEPT
                    !.i = k + 1,
                    !.ifaces = upsert_decoded(@, k, row),
                    !.stats = @ \cup {[interface |-> k, in_bps |-> row.in_bps,
                                       out_bps |-> row.out_bps]}]
    /\ UNCHANGED <<main, fleet, inventory>>

\* After the loop: status up, commit; on a failed commit the rows of the
\* cycle are rolled back and the status stays.
commit_rows ==
    /\ reply.fn = "poll_device"
    /\ ~reply.returned
    /\ reply.i > reply.arg.n
    /\ \E commit_ok \in BOOLEAN :
        reply' = IF commit_ok
                 THEN [reply EXCEPT !.returned = TRUE, !.committed = TRUE,
                                    !.status = "up"]
                 ELSE [reply EXCEPT
                         !.returned = TRUE,
                         !.ifaces = IF reply.arg.stored THEN [j \in {1} |-> Iface_old]
                                    ELSE [j \in {} |-> Iface_old],
                         !.stats = {}]
    /\ UNCHANGED <<main, fleet, inventory>>

SpecPoll == PollInit /\ [][decode_row \/ commit_rows]_vars

\* ------------------------------------------- poll_device, the walks it issues
\* The walks of one poll_device call by the OID they walk.  asyncio.gather
\* starts every coroutine it is given before it suspends, so the walks of one
\* gather are in flight together; each returns None ("none"), an empty dict
\* ("empty") or a dict with rows ("rows").
InterfaceWalks ==
    {"IF_DESCR_OID", "IF_OPER_STATUS_OID", "IF_IN_OCTETS_OID", "IF_OUT_OCTETS_OID",
     "IF_MAC_OID"}
LldpWalks == {"LLDP_REM_SYS_NAME", "LLDP_REM_PORT_DESC", "LLDP_REM_MAN_ADDR"}

GatherInit ==
    /\ cycle = 0
    /\ devices = [d \in Dev |-> NewDevice]
    /\ interfaces = {}
    /\ stats = {}
    /\ discovered = {}
    /\ links = {}
    /\ pc = [d \in Dev |-> "done"]
    /\ loop = [d \in Dev |-> [n |-> 0, i |-> 0]]
    /\ ins = [d \in Dev |-> NoInsert]
    /\ sess = [d \in Dev |-> EmptySess]
    /\ dead = [d \in Dev |-> FALSE]
    /\ walked = [d \in Dev |-> <<>>]
    /\ tried = [d \in Dev |-> {}]
    /\ outcome = [d \in Dev |-> "none"]
    /\ ping = NoPing
    /\ fleet = FleetIdle
    /\ inventory = NoInventory
    /\ reply = [fn |-> "walks", at |-> "start", flight |-> {},
                got |-> [o \in InterfaceWalks \cup LldpWalks |-> "pending"]]

\* if_descr, if_oper, if_in, if_out, if_mac = await asyncio.gather(...)
gather_interface_walks ==
    /\ reply.fn = "walks"
    /\ reply.at = "start"
    /\ reply' = [reply EXCEPT !.at = "interfaces", !.flight = InterfaceWalks]
    /\ UNCHANGED <<main, fleet, inventory>>

\* One walk in flight returns.
walk_returns ==
    /\ reply.fn = "walks"
    /\ \E o \in reply.flight, r \in {"none", "empty", "rows"} :
          reply' = [reply EXCEPT !.flight = @ \ {o}, !.got[o] = r]
    /\ UNCHANGED <<main, fleet, inventory>>

\* The gather of the interface walks returned.  `if not if_descr`: the device
\* is marked down and poll_device returns; otherwise get_lldp_neighbors is
\* awaited, which gathers the LLDP walks.
get_lldp_neighbors_walks ==
    /\ reply.fn = "walks"
    /\ reply.at = "interfaces"
    /\ reply.flight = {}
    /\ reply' = IF reply.got["IF_DESCR_OID"] # "rows"
                THEN [reply EXCEPT !.at = "returned"]
                ELSE [reply EXCEPT !.at = "lldp", !.flight = LldpWalks]
    /\ UNCHANGED <<main, fleet, inventory>>

\* The gather of the LLDP walks returned: the neighbors are built and the loop
\* over the descriptions begins.
lldp_walks_gathered ==
    /\ reply.fn = "walks"
    /\ reply.at = "lldp"
    /\ reply.flight = {}
    /\ reply' = [reply EXCEPT !.at = "loop"]
    /\ UNCHANGED <<main, fleet, inventory>>

SpecGather ==
    GatherInit /\ [][gather_interface_walks \/ walk_returns
                        \/ get_lldp_neighbors_walks \/ lldp_walks_gathered]_vars

\* ------------------------------------------------------ get_lldp_neighbors
\* The keys of an LLDP walk are the OIDs of its rows; a row is named here by
\* the components that follow the walked prefix.  The rows a table may hold,
\* in the order a walk returns them: the remote tables are indexed by time
\* mark, local port and remote index, of which agents report one or more
\* components.
LldpRows == <<(<<1>>), (<<2>>), (<<3, 1>>)>>

\* A walk is None or a dict from row to value; the three walks of one call.
LldpInputs ==
    LET keys == {LldpRows[p] : p \in 1..Len(LldpRows)}
        tables(V) == {[kind |-> "none"]}
                        \cup [kind : {"map"}, val : UNION {[D -> V] : D \in SUBSET keys}]
    IN [sysnames : tables({<<"A">>, <<" ", "B", "NUL">>}),
        portdesc : tables({<<"p", "1">>}),
        manaddr : tables({<<"1", "0">>})]

\* oid_string.rsplit(".", 1)[-1]: the last component.
oid_index(oid) == oid[Len(oid)]

\* The dict the resolver returns, by index.  The loop over sysnames.items()
\* assigns neighbors[index] row after row, so of several rows with one index
\* the last one stays; the other walks are read with get(prefix.index, ""),
\* the key made of the prefix and the index alone.
get_lldp_neighbors(arg) ==
    LET sanitized(v) == strip(SelectSeq(v, not_nul))
        nonempty(w) == w.kind = "map" /\ DOMAIN w.val # {}
        get(w, index) == IF nonempty(w) /\ <<index>> \in DOMAIN w.val
                         THEN sanitized(w.val[<<index>>]) ELSE <<>>
        last(index) == CHOOSE p \in 1..Len(LldpRows) :
                          /\ LldpRows[p] \in DOMAIN arg.sysnames.val
                          /\ oid_index(LldpRows[p]) = index
                          /\ \A q \in (p + 1)..Len(LldpRows) :
                                LldpRows[q] \in DOMAIN arg.sysnames.val
                                    => oid_index(LldpRows[q]) # index
    IN IF ~nonempty(arg.sysnames) THEN <<>>
       ELSE [index \in {oid_index(o) : o \in DOMAIN arg.sysnames.val} |->
                [neighbor_name |-> sanitized(arg.sysnames.val[LldpRows[last(index)]]),
                 neighbor_ip |-> get(arg.manaddr, index),
                 neighbor_iface |-> get(arg.portdesc, index)]]

LldpInit ==
    /\ cycle = 0
    /\ devices = [d \in Dev |-> NewDevice]
    /\ interfaces = {}
    /\ stats = {}
    /\ discovered = {}
    /\ links = {}
    /\ pc = [d \in Dev |-> "done"]
    /\ loop = [d \in Dev |-> [n |-> 0, i |-> 0]]
    /\ ins = [d \in Dev |-> NoInsert]
    /\ sess = [d \in Dev |-> EmptySess]
    /\ dead = [d \in Dev |-> FALSE]
    /\ walked = [d \in Dev |-> <<>>]
    /\ tried = [d \in Dev |-> {}]
    /\ outcome = [d \in Dev |-> "none"]
    /\ ping = NoPing
    /\ fleet = FleetIdle
    /\ inventory = NoInventory
    /\ \E arg \in LldpInputs :
          reply = [fn |-> "get_lldp_neighbors", arg |-> arg,
                   returned |-> FALSE, result |-> <<>>]

\* neighbors = await get_lldp_neighbors(target, community), from the gathered
\* walks on.
resolve_neighbors ==
    /\ reply.fn = "get_lldp_neighbors"
    /\ ~reply.returned
    /\ reply' = [reply EXCEPT !.returned = TRUE,
                               !.result = get_lldp_neighbors(reply.arg)]
    /\ UNCHANGED <<main, fleet, inventory>>

SpecLldp == LldpInit /\ [][resolve_neighbors]_vars

\* ================================================================== claims
\* The device and the cycle a row was created by, read off its primary key.
creator(id) == id \div 100
created_in(id) == (id \div 10) % 10

\* Device d's task has written (or holds pending) some row in this cycle.
wrote_rows(d) ==
    \/ \E r \in interfaces \cup stats \cup discovered \cup links :
          creator(r.id) = d /\ created_in(r.id) = cycle
    \/ sess[d] # EmptySess

\* The primary walk of d failed in this cycle.
primary_failed(d) == outcome[d] \in {"down", "downfailed"}

\* Phase A of this cycle committed status "down" for d.
marked_down(d) == ping.committed /\ ~ping.ok[d]

\* ---- C1
\* C1 (as stated): when the primary walk of a device fails or is empty, the
\* worker leaves the device with status "down" and no last-seen, and has
\* written no Interface, InterfaceStat, DiscoveredDevice or TopologyLink row.
C1_Claim ==
    \A d \in Dev : primary_failed(d) =>
        /\ devices[d].status = "down" /\ devices[d].last_seen = NULL
        /\ ~wrote_rows(d)

\* C1 (amended): when the primary walk fails the worker writes no row; it
\* leaves status "down" and no last-seen when its status update commits, and
\* when that commit raises the update is rolled back and the device is not
\* down.
C1_PrimaryWalkFailed ==
    \A d \in Dev :
        /\ primary_failed(d) => ~wrote_rows(d)
        /\ outcome[d] = "down" =>
              (devices[d].status = "down" /\ devices[d].last_seen = NULL)
        /\ outcome[d] = "downfailed" => devices[d].status # "down"

\* A device phase A had set up, whose worker then set it down.
C1_Witness ==
    \E d \in Dev :
        /\ ping.committed /\ ping.ok[d]
        /\ outcome[d] = "down"
        /\ devices[d].status = "down"

\* ---- C2
\* The InterfaceStat rows of this cycle that belong to d's interface `name`.
appended_for(d, name) ==
    {s \in stats :
        /\ s.timestamp = cycle
        /\ \E r \in interfaces :
              r.id = s.interface_id /\ r.device_id = d /\ r.interface_name = name}

\* The indices of d's walk that carried `name` and decoded.
decoded_indices(d, name) ==
    {k \in 1..Len(walked[d]) : walked[d][k].name = name /\ walked[d][k].decoded}

C3_OneInterfacePerName ==
    \A r1 \in interfaces, r2 \in interfaces :
        (r1.device_id = r2.device_id /\ r1.interface_name = r2.interface_name)
            => r1 = r2

\* A device re-polled with a name whose row an earlier cycle created.
C3_Witness ==
    \E d \in Dev, r \in interfaces :
        /\ outcome[d] = "committed"
        /\ r.device_id = d /\ created_in(r.id) < cycle
        /\ decoded_indices(d, r.interface_name) # {}

\* ---- C4
\* The key of a TopologyLink: source, source interface, resolved destination
\* (managed device, discovered device or none), destination interface.
link_key(l) == <<l.src_device_id, l.src_interface, l.dst_device_id,
                 l.dst_discovered_device_id, l.dst_interface>>

\* C4 (as stated): a later poll of the same adjacency inserts no new link: no
\* link created in this cycle has the key of a link of an earlier cycle.
C4_Claim ==
    \A l1 \in links, l2 \in links :
        (created_in(l1.id) < created_in(l2.id) /\ creator(l1.id) = creator(l2.id))
            => link_key(l1) # link_key(l2)

C6_Claim ==
    \A l1 \in links, l2 \in links : link_key(l1) = link_key(l2) => l1 = l2

C8_OneDiscoveredPerName ==
    \A r1 \in discovered, r2 \in discovered :
        r1.lldp_hostname = r2.lldp_hostname => r1 = r2

\* A worker's INSERT of a name another worker had just committed was refused.
C8_Witness ==
    \E d \in Dev :
        /\ dead[d]
        /\ \E r \in discovered :
              r.lldp_hostname \in tried[d] /\ created_in(r.id) = cycle

\* ---- C9
\* Neither an injected commit failure nor an unfinished task.
ran_to_commit(d) == pc[d] = "done" /\ outcome[d] # "commitfailed"

unknown_before(nm) ==
    ~\E r \in discovered : r.lldp_hostname = nm /\ r.first_seen < cycle

has_link_to(d, nm) ==
    \E l \in links, r \in discovered :
        /\ r.lldp_hostname = nm
        /\ l.src_device_id = d
        /\ l.dst_discovered_device_id = r.id

\* C9 (as stated): when two workers observe the same unknown neighbor name in
\* one cycle, both cycles commit, exactly one DiscoveredDevice of that name
\* exists and each source device has its own link to it.
C9_Claim ==
    \A d1 \in Dev, d2 \in Dev, nm \in NbNames :
        (/\ d1 # d2
         /\ ran_to_commit(d1) /\ ran_to_commit(d2)
         /\ nm \in tried[d1] /\ nm \in tried[d2]
         /\ unknown_before(nm))
        => /\ outcome[d1] = "committed" /\ outcome[d2] = "committed"
           /\ Cardinality({r \in discovered : r.lldp_hostname = nm}) = 1
           /\ has_link_to(d1, nm) /\ has_link_to(d2, nm)

\* ---- C10
\* C10: at most 50 reachability probes and at most 20 Device Poll Workers are
\* in flight, whatever the number of devices.
C10_BoundedFanOut ==
    /\ fleet.ping_running <= ping_concurrency
    /\ fleet.polling <= max_concurrency
    /\ fleet.checking + fleet.polling <= max_concurrency

\* Every slot of the sweep is taken by a running poll worker while further
\* devices wait.
C10_Witness ==
    /\ fleet.polling = max_concurrency
    /\ fleet.waiting > 0

\* ---- C11
\* The Device Poll Worker of d ran to its end.
polled(d) == outcome[d] \in {"down", "downfailed", "rolledback", "commitfailed", "committed"}

\* C11: an error in one device's task never cancels, fails or blocks another
\* device's task: a step of one task moves no other task, a task ends only
\* with an outcome of its own (skipped only when stored as down), and every
\* task that waits for a slot ends.
C11_WorkerFailureIsolated ==
    /\ [](\A e \in Dev : (cycle > 0 /\ pc[e] = "done") => outcome[e] # "none")
    /\ [][cycle' = cycle =>
            /\ Cardinality({e \in Dev : pc'[e] # pc[e] \/ outcome'[e] # outcome[e]}) <= 1
            /\ \A e \in Dev : (outcome[e] = "none" /\ outcome'[e] = "skipped")
                                   => devices[e].status = "down"]_vars
    /\ \A e \in Dev : (pc[e] = "wait") ~> (pc[e] = "done")

\* One device's re-check raised, and the other device, taken up after it, is
\* inside its poll.
C11_Witness ==
    \E d \in Dev, e \in Dev :
        /\ outcome[d] = "checkfailed"
        /\ pc[e] \in {"loop", "flush", "finish"}

\* ---- C12
\* C12: the fleet scheduler never terminates: every pass of its loop, whatever
\* failed in it, reaches the sleep, and after the sleep the next pass starts.
C12_SchedulerNeverTerminates ==
    /\ [](fleet.phase \in {"top", "A", "B", "sleep"})
    /\ (fleet.phase = "top") ~> (fleet.phase = "sleep")
    /\ (fleet.phase = "sleep") ~> (fleet.phase = "top")

\* A pass whose status batch update failed has ended, the scheduler has slept
\* and is at the top of its next pass.
C12_Witness ==
    /\ fleet.phase = "top"
    /\ fleet.prev = "update"

\* ---- C13
\* C13: when the final commit of a device's poll fails, none of the worker's
\* writes is stored - the failing step leaves every table as it was, no row
\* created by the worker in this cycle exists - and the task is over until
\* the next cycle.
C13_CommitFailureRollsBack ==
    /\ [](\A d \in Dev : outcome[d] = "commitfailed" =>
            /\ pc[d] = "done"
            /\ sess[d] = EmptySess
            /\ ~\E r \in interfaces \cup stats \cup discovered \cup links :
                    creator(r.id) = d /\ created_in(r.id) = cycle)
    /\ [][\A d \in Dev :
            /\ (pc[d] = "finish" /\ outcome'[d] = "commitfailed") => db' = db
            /\ (pc[d] \in {"loop", "flush"} /\ pc'[d] # pc[d]) => db' = db
            /\ (outcome[d] = "commitfailed" /\ cycle' = cycle) => pc'[d] = "done"]_vars

\* A worker that had flushed a new Interface and a new DiscoveredDevice failed
\* to commit.
C13_Witness ==
    \E d \in Dev :
        /\ outcome[d] = "commitfailed"
        /\ Len(walked[d]) > 0 /\ walked[d][1].decoded
        /\ tried[d] # {}
        /\ ~\E r \in interfaces : r.device_id = d

\* ---- C14
\* What the endpoint takes for the label of a link.
label_of(l) == strip(IF l.dst_hostname = None THEN <<>> ELSE l.dst_hostname)

\* The label names one of the non-device markers, in any letter case.
names_marker(l) == \E m \in markers : contains(m, lower(label_of(l)))

\* Strategy k matches some device of the inventory, whatever the order of the
\* rows.
strategy_matches(k, l) ==
    LET devs == inventory.devices
        dst_name == label_of(l)
    IN /\ dst_name # <<>>
       /\ CASE k = 1 -> exact(devs, dst_name) # NoMatch
            [] k = 2 -> short(devs, dst_name) # NoMatch
            [] k = 3 -> \E j \in DOMAIN devs :
                           contains_step(devs[j], dst_name) \in {"contains_dst", "contains_dev"}
            [] k = 4 -> ip_inside(devs, dst_name) # NoMatch
            [] k = 5 -> mac_inside(inventory, dst_name) # NoMatch

lowest_strategy(l) == first({k \in 1..5 : strategy_matches(k, l)})

called == reply.fn = "backfill_links"

\* C14 (as stated): for each candidate link the endpoint reports the match of
\* the lowest-numbered strategy that matches any device.
C14_Claim ==
    called =>
        \A l \in reply.picked :
            (~names_marker(l) /\ lowest_strategy(l) # 0) =>
                \E sg \in reply.suggestions :
                    sg.link_id = l.id /\ sg.strategy = lowest_strategy(l)

\* ---- C15
\* The runs of twelve hex digits a label contains, case-folded.
hex_runs(s) ==
    {lower(SubSeq(s, p, p + 11)) :
        p \in {q \in 1..(Len(s) - 11) : \A k \in 0..11 : s[q + k] \in hex_digits}}

\* The devices owning an interface whose separator-stripped MAC ends with (or
\* is) a hex run of the label.
mac_owners(l) ==
    {inventory.ifaces[j].device_id : j \in
        {i \in DOMAIN inventory.ifaces :
            \E run \in hex_runs(label_of(l)) :
                endswith(normalize_mac(inventory.ifaces[i].mac_address), run)}}

\* C15 (as stated): a candidate link whose label contains a 12-hex-digit run
\* matching the MAC of an interface of device B, and which no device matches by
\* strategies 1 to 4, is resolved to B through strategy 5.
C15_Claim ==
    called =>
        \A l \in reply.picked : \A b \in mac_owners(l) :
            (\A k \in 1..4 : ~strategy_matches(k, l)) =>
                \E sg \in reply.suggestions :
                    sg.link_id = l.id /\ sg.matched_device_id = b /\ sg.strategy = 5

\* ---- C16
\* C16: a link whose label contains "adapter", "firmware" or "fw_version" in
\* any letter case is never suggested and is stored after the run as before.
C16_MarkedLabelSkipped ==
    called =>
        \A l \in reply.before :
            names_marker(l) =>
                /\ l \in links
                /\ ~\E sg \in reply.suggestions : sg.link_id = l.id

\* A committed run had a link labelled "sw1 Adapter #3" among its candidates,
\* with a device named "sw1" in the inventory, and resolved another link.
C16_Witness ==
    /\ called /\ reply.committed
    /\ \E l \in reply.picked :
          /\ l.dst_hostname = L_adapter
          /\ \E j \in DOMAIN inventory.devices :
                contains(lower(inventory.devices[j].hostname), lower(label_of(l)))
    /\ links # reply.before

\* ---- C17
\* The matches the loop finds for the candidates of the run.
matches_found ==
    {l.id : l \in {c \in reply.picked : ~names_marker(c) /\ lowest_strategy(c) # 0}}

\* C17 (as stated): a dry run changes no stored link, returns the suggested
\* matches it found and reports 0 updated.
C17_Claim ==
    (called /\ reply.dry_run) =>
        /\ links = reply.before
        /\ reply.updated = 0
        /\ {sg.link_id : sg \in reply.suggestions} = matches_found

\* ---- C18
\* C18: when the commit of a run that is not a dry run fails, every link is
\* stored as before the run.
C18_FailedCommitPersistsNothing ==
    (called /\ ~reply.dry_run /\ reply.status = "ok" /\ ~reply.committed) =>
        links = reply.before

\* The commit of a batch with two link updates failed.
C18_Witness ==
    /\ called /\ ~reply.dry_run /\ reply.status = "ok" /\ ~reply.committed
    /\ reply.updated = 2

\* ---- C19
\* The value of a pair of hex digits.
hex_value(hi, lo) ==
    (16 * ((CHOOSE i \in 1..16 : hex_chars[i] = hi) - 1))
        + ((CHOOSE i \in 1..16 : hex_chars[i] = lo) - 1)

\* text is the lowercase colon-separated hex form of the six bytes bs.
is_colon_hex_of(text, bs) ==
    /\ Len(text) = 17
    /\ \A k \in 1..5 : text[3 * k] = ":"
    /\ \A k \in 1..6 :
          /\ \E i \in 1..16 : hex_chars[i] = text[(3 * k) - 2]
          /\ \E i \in 1..16 : hex_chars[i] = text[(3 * k) - 1]
          /\ hex_value(text[(3 * k) - 2], text[(3 * k) - 1]) = bs[k]

\* s is six pairs of hex digits separated by colons.
colon_formatted(s) ==
    /\ Len(s) = 17
    /\ \A k \in 1..17 : IF k % 3 = 0 THEN s[k] = ":" ELSE s[k] \in hex_digits

returned(kind) == reply.fn = "format_mac_address" /\ reply.returned /\ reply.arg.kind = kind

probe_failed(d) == cycle > 0 /\ ~ping.ok[d]

\* The task of d has entered the Device Poll Worker in this cycle.
entered_poll(d) == pc[d] \in {"walk", "loop", "flush", "finish"} \/ polled(d)

\* C20 (as stated): a device whose probe failed is not polled in that cycle,
\* whether or not the status update of phase A commits.
C20_Claim == \A d \in Dev : probe_failed(d) => ~entered_poll(d)

\* C20 (amended): a device whose probe failed is not polled in that cycle when
\* the status update of phase A commits; when it does not commit, the device
\* is polled unless the re-check raises or finds the status stored before,
\* which is then "down".
C20_ProbeFailedNotPolled ==
    /\ [](\A d \in Dev : (probe_failed(d) /\ entered_poll(d)) => ~ping.committed)
    /\ [][\A d \in Dev :
            (probe_failed(d) /\ ~ping.committed /\ pc[d] = "check" /\ pc'[d] = "done")
                => (outcome'[d] = "checkfailed" \/ devices[d].status = "down")]_vars

\* The status update committed, one device's probe had failed, and the other
\* device was polled.
C20_Witness ==
    \E d \in Dev, e \in Dev :
        /\ probe_failed(d) /\ ping.committed
        /\ outcome[d] = "skipped"
        /\ polled(e)

\* ---- C21
\* The rows of device d's ifDescr walk processed in this cycle.
rows(d) == 1..Len(walked[d])

\* The neighbor of row k is named and has no managed address: it goes through
\* the find-or-create of a DiscoveredDevice.
unmatched_named(d, k) ==
    /\ walked[d][k].decoded
    /\ walked[d][k].nb.present
    /\ wants_discovered(neighbor_device(walked[d][k].nb.neighbor_ip), walked[d][k].nb)

\* Processing row k raised: a status or counter value did not convert, or the
\* neighbor handling failed (the unbound `device`, or the refused INSERT).
row_raised(d, k) == ~walked[d][k].decoded \/ unmatched_named(d, k)

\* The interface of row k is stored with a sample of this cycle.
row_stored(d, k) ==
    \E r \in interfaces :
        /\ r.device_id = d
        /\ r.interface_name = walked[d][k].name
        /\ \E st \in stats : st.interface_id = r.id /\ st.timestamp = cycle

\* C21 (as stated): when processing a row of a device's walk raises, every
\* other row is still upserted with its sample and the device's cycle commits
\* with status "up" (unless the commit itself fails).
C21_Claim ==
    \A d \in Dev :
        (pc[d] = "done" /\ outcome[d] # "commitfailed"
            /\ \E k \in rows(d) : row_raised(d, k))
        => /\ outcome[d] = "committed"
           /\ devices[d].status = "up"
           /\ \A k \in rows(d) : ~row_raised(d, k) => row_stored(d, k)

\* ---- C22
\* C22 (as stated): after a committed cycle in which an interface of the
\* device reports a named neighbor whose address is that of no managed device,
\* a DiscoveredDevice of that name exists, and a link from the device and
\* interface to it that carries the name.
C22_Claim ==
    \A d \in Dev :
        outcome[d] = "committed" =>
            \A k \in rows(d) :
                unmatched_named(d, k) =>
                    \E r \in discovered :
                        /\ r.lldp_hostname = walked[d][k].nb.neighbor_name
                        /\ \E l \in links :
                              /\ l.src_device_id = d
                              /\ l.src_interface = walked[d][k].name
                              /\ l.dst_discovered_device_id = r.id
                              /\ l.dst_hostname = walked[d][k].nb.neighbor_name

\* ---- C23
\* C23 (as stated): after a committed cycle in which the device reports a named
\* neighbor matching no managed device by address, the device's lldp_hostname
\* is set (to that name, when it had none), and an lldp_hostname that is set
\* is not written again.
C23_Claim ==
    \A d \in Dev :
        /\ (outcome[d] = "committed" /\ \E k \in rows(d) : unmatched_named(d, k))
              => \/ devices[d].lldp_hostname \in
                        {walked[d][k].nb.neighbor_name :
                            k \in {j \in rows(d) : unmatched_named(d, j)}}
                 \/ \E r \in discovered :
                        r.lldp_hostname = devices[d].lldp_hostname /\ r.first_seen < cycle
        /\ sess[d].lldp_hostname # None => devices[d].lldp_hostname = None

\* ---- C24
\* The neighbor of a processed row has the address of a managed device.
managed_neighbor(row) ==
    row.decoded /\ row.nb.present /\ row.nb.neighbor_ip \in Dev

\* l is the link of device d's row to the managed device with the neighbor's
\* address.
link_to_managed(l, d, row) ==
    /\ l.src_device_id = d
    /\ l.src_interface = row.name
    /\ l.dst_device_id = row.nb.neighbor_ip
    /\ l.dst_interface = row.nb.neighbor_iface
    /\ l.dst_discovered_device_id = NULL

\* C24: when a neighbor's management address is that of a managed device, the
\* link written or refreshed for it has that device as destination and no
\* discovered device, and the step neither creates nor refreshes a
\* DiscoveredDevice, whatever name the neighbor announces; after the commit
\* the link is stored with the time of the cycle.
C24_ManagedNeighborByIp ==
    /\ [](\A d \in Dev : \A k \in rows(d) :
            (managed_neighbor(walked[d][k]) /\ outcome[d] = "committed") =>
                \E l \in links : link_to_managed(l, d, walked[d][k]) /\ l.last_seen = cycle)
    /\ [][\A d \in Dev :
            Len(walked'[d]) = Len(walked[d]) + 1 =>
                LET row == walked'[d][Len(walked'[d])]
                IN managed_neighbor(row) =>
                    /\ sess'[d].dd = sess[d].dd
                    /\ sess'[d].ddSeen = sess[d].ddSeen
                    /\ tried'[d] = tried[d]
                    /\ pc'[d] # "flush"
                    /\ \/ \E l \in sess'[d].links \ sess[d].links :
                             link_to_managed(l, d, row)
                       \/ \E l \in vis_links(d) :
                             link_to_managed(l, d, row) /\ l.id \in sess'[d].linkSeen]_vars

\* A committed cycle in which a neighbor with the address of a managed device
\* and the name "SW1" was seen: the link to that device carries the name, and
\* no DiscoveredDevice exists.
C24_Witness ==
    \E d \in Dev : \E k \in rows(d) :
        /\ outcome[d] = "committed"
        /\ managed_neighbor(walked[d][k])
        /\ walked[d][k].nb.neighbor_name # NoName
        /\ \E l \in links :
              /\ link_to_managed(l, d, walked[d][k])
              /\ l.dst_hostname = walked[d][k].nb.neighbor_name
        /\ discovered = {}

\* ---- C25
\* C25 (as stated): no operation changes the label of a stored link; a
\* backfill run changes at most the destination device of a link.
C25_Claim ==
    called =>
        \A l \in reply.before :
            \E m \in links : m = [l EXCEPT !.dst_device_id = m.dst_device_id]

\* ---- C26
\* C26 (as stated): the candidates of a backfill run reference neither a
\* managed nor a discovered device, and a link that references a discovered
\* device is stored after the run as before.
C26_Claim ==
    called =>
        /\ \A l \in reply.picked :
              l.dst_device_id = NULL /\ l.dst_discovered_device_id = NULL
        /\ \A l \in reply.before : l.dst_discovered_device_id # NULL => l \in links

\* ---- C27
\* C27 (as stated): a run that has among its candidates a link whose label
\* matches no device under any strategy completes without error and leaves
\* that link as it was, whatever the inventory.
C27_Claim ==
    called =>
        \A l \in reply.picked :
            lowest_strategy(l) = 0 => (reply.status = "ok" /\ l \in links)

\* ---- C28
polled_rows == reply.fn = "poll_device" /\ reply.returned

failed(w) == w.kind = "none"

\* The value a walk that did not fail holds for index k.
held(w, k) == IF failed(w) THEN "missing" ELSE w.val[k]

\* The values the status and octet walks hold for index k are numbers.
numeric(arg, k) == held(arg.if_oper, k) # "x" /\ held(arg.if_in, k) # "x"

\* The MAC stored for the name k before the poll.
mac_before(arg, k) == IF arg.stored /\ k = 1 THEN Iface_old.mac_address ELSE None

\* C28: when the description walk succeeds and any of the status, in-octets,
\* out-octets or MAC walks fails, a committed poll stores the device as up,
\* every described interface (whose values in the other walks are numbers) is
\* upserted with its sample, the column of a failed walk is defaulted - status
\* "down", rate 0, MAC as it was - and the columns of the other walks hold
\* what those walks reported.
C28_PartialWalkFailure ==
    (/\ polled_rows /\ reply.committed
     /\ \E w \in {reply.arg.if_oper, reply.arg.if_in, reply.arg.if_out, reply.arg.if_mac} :
            failed(w))
    => /\ reply.status = "up"
       /\ \A k \in 1..reply.arg.n :
            numeric(reply.arg, k) =>
                /\ k \in DOMAIN reply.ifaces
                /\ \E st \in reply.stats :
                      /\ st.interface = k
                      /\ failed(reply.arg.if_in) => st.in_bps = 0
                      /\ failed(reply.arg.if_out) => st.out_bps = 0
                      /\ held(reply.arg.if_in, k) = "40" => st.in_bps = 64
                      /\ held(reply.arg.if_out, k) = "3" => st.out_bps = 4
                /\ failed(reply.arg.if_oper) => reply.ifaces[k].status = "down"
                /\ failed(reply.arg.if_mac) =>
                      reply.ifaces[k].mac_address = mac_before(reply.arg, k)
                /\ held(reply.arg.if_oper, k) = "1" => reply.ifaces[k].status = "up"
                /\ held(reply.arg.if_mac, k) = "mac6" =>
                      reply.ifaces[k].mac_address =
                          <<"0", "0", ":", "a", "a", ":", "f", "f", ":",
                            "0", "0", ":", "a", "a", ":", "f", "f">>

\* The status and MAC walks failed, the octet walks did not: of two rows the
\* stored interface kept its MAC and the new one has none, both are down and
\* the second has its rate.
C28_Witness ==
    /\ polled_rows /\ reply.committed
    /\ failed(reply.arg.if_oper) /\ failed(reply.arg.if_mac)
    /\ reply.arg.n = 2 /\ reply.arg.stored
    /\ held(reply.arg.if_in, 2) = "40"
    /\ DOMAIN reply.ifaces = {1, 2}
    /\ reply.ifaces[1].status = "down" /\ reply.ifaces[1].mac_address = Iface_old.mac_address
    /\ reply.ifaces[2].status = "down" /\ reply.ifaces[2].mac_address = None
    /\ \E st \in reply.stats : st.interface = 2 /\ st.in_bps = 64

\* ---- C29
\* The poll worker stored d as down in the cycle before (its primary walk had
\* failed), and d's reachability probe succeeded in this cycle.
down_then_reachable(d) == d \in ping.was_down /\ ping.ok[d]

\* C29 (as stated): a device the poll worker set down is polled in the next
\* cycle whenever its probe succeeds in that cycle.
C29_Claim ==
    \A d \in Dev : (down_then_reachable(d) /\ pc[d] = "done") => polled(d)

\* C29 (amended): a device the poll worker set down is polled in the next
\* cycle when its probe succeeds and the status update of phase A commits
\* (unless the re-check raises); when that update does not commit, the stored
\* "down" stays and the device is not polled in that cycle.
C29_DownRetried ==
    \A d \in Dev :
        (down_then_reachable(d) /\ pc[d] = "done") =>
            IF ping.committed
            THEN polled(d) \/ outcome[d] = "checkfailed"
            ELSE outcome[d] \in {"skipped", "checkfailed"}

\* A device stored as down by its poll worker was probed with success, stored
\* as up, walked again and committed.
C29_Witness ==
    \E d \in Dev :
        /\ down_then_reachable(d) /\ ping.committed
        /\ outcome[d] = "committed"
        /\ Len(walked[d]) > 0

\* ---- C30
walked_table == reply.fn = "snmp_walk" /\ reply.returned

\* The call fails: the transport raises, or a row carries an error indication
\* or an error status.
walk_fails(arg) ==
    arg.raises \/ \E k \in 1..Len(arg.rows) : arg.rows[k].errInd \/ arg.rows[k].errStat # 0

\* The pairs the rows report, by row.
reported(arg) ==
    UNION {{[row |-> k, oid |-> arg.rows[k].varBinds[j].oid,
             value |-> arg.rows[k].varBinds[j].value] :
                j \in 1..Len(arg.rows[k].varBinds)} : k \in 1..Len(arg.rows)}

\* C30: a walk returns None when the transport raises or any row carries an
\* error indication or status, and otherwise the map of every reported
\* address to the value reported for it last, which is the empty map when no
\* row reports anything; it never returns part of a failed walk.
C30_WalkAllOrNothing ==
    walked_table =>
        IF walk_fails(reply.arg)
        THEN reply.result.kind = "none"
        ELSE /\ reply.result.kind = "map"
             /\ DOMAIN reply.result.val = {p.oid : p \in reported(reply.arg)}
             /\ \A p \in reported(reply.arg) :
                   (~\E q \in reported(reply.arg) : q.oid = p.oid /\ q.row > p.row)
                       => reply.result.val[p.oid] = p.value

\* A walk of three rows over two addresses returned the map of both.
C30_Witness ==
    /\ walked_table
    /\ ~walk_fails(reply.arg)
    /\ Len(reply.arg.rows) = 3
    /\ reply.result.kind = "map"
    /\ DOMAIN reply.result.val = Oids

C32_Claim ==
    (/\ fleet.phase = "A"
     /\ fleet.ping_waiting > 0
     /\ fleet.ping_running < ping_concurrency)
    => ENABLED ping_worker_start

\* ---- C33
\* C33: the three LLDP walks are issued together with the five interface
\* walks: once the interface walks are in flight, so are (or were) the LLDP
\* walks.
C33_Claim ==
    (reply.fn = "walks" /\ reply.at = "interfaces")
    => \A o \in LldpWalks : o \in reply.flight \/ reply.got[o] # "pending"

\* ---- C34
resolved == reply.fn = "get_lldp_neighbors" /\ reply.returned

\* The rows of walk w whose index is x.
rows_at(w, x) ==
    IF w.kind = "none" THEN {} ELSE {o \in DOMAIN w.val : oid_index(o) = x}

\* The field of an entry is the cleaned value of walk w at index x, or empty
\* when the walk failed or has no row of that index.
value_at(field, w, x) ==
    IF rows_at(w, x) = {} THEN field = <<>>
    ELSE \E o \in rows_at(w, x) : field = strip(SelectSeq(w.val[o], not_nul))

\* C34: the resolver's result has an entry for exactly the indices of the
\* system-name walk, one entry per system-name row; the entry's ip and iface
\* are the values of the management-address and port-description walks at
\* that index, or empty; a failed or empty system-name walk gives the empty
\* result.
C34_Claim ==
    resolved =>
        LET a == reply.arg
            r == reply.result
        IN IF a.sysnames.kind = "none" \/ DOMAIN a.sysnames.val = {}
           THEN DOMAIN r = {}
           ELSE /\ DOMAIN r = {oid_index(o) : o \in DOMAIN a.sysnames.val}
                /\ Cardinality(DOMAIN r) = Cardinality(DOMAIN a.sysnames.val)
                /\ \A x \in DOMAIN r :
                      /\ value_at(r[x].neighbor_ip, a.manaddr, x)
                      /\ value_at(r[x].neighbor_iface, a.portdesc, x)

\* ---- C35
\* The counter a walk holds for index k, 0 when the walk failed or lacks it.
counter(w, k) ==
    CASE held(w, k) = "40" -> 40
      [] held(w, k) = "3" -> 3
      [] OTHER -> 0

\* rate is octets * 8 / interval cut to an integer.
truncated(rate, octets) ==
    rate * interval <= octets * 8 /\ octets * 8 < (rate + 1) * interval

\* C35: for every decoded index the status is "up" exactly when the
\* operational status at that index is 1, "down" for any other or a missing
\* value, and the in and out rates are counter * 8 / interval cut to an
\* integer, a missing counter counting as 0.
C35_StatusAndRates ==
    (polled_rows /\ reply.committed) =>
        \A k \in 1..reply.arg.n :
            k \notin reply.raised =>
                /\ k \in DOMAIN reply.ifaces
                /\ reply.ifaces[k].status =
                      IF held(reply.arg.if_oper, k) = "1" THEN "up" ELSE "down"
                /\ \E st \in reply.stats : st.interface = k
                /\ \A st \in reply.stats :
                      st.interface = k =>
                          /\ truncated(st.in_bps, counter(reply.arg.if_in, k))
                          /\ truncated(st.out_bps, counter(reply.arg.if_out, k))

\* Row 1 is up with 40 octets in (64 bit/s) and 3 octets out (24 / 5, cut to
\* 4); row 2 has status 2 and no counters: down, rates 0.
C35_Witness ==
    /\ polled_rows /\ reply.committed /\ reply.arg.n = 2 /\ reply.raised = {}
    /\ held(reply.arg.if_oper, 1) = "1" /\ held(reply.arg.if_oper, 2) = "2"
    /\ held(reply.arg.if_in, 2) = "missing" /\ held(reply.arg.if_out, 2) = "missing"
    /\ reply.ifaces[1].status = "up" /\ reply.ifaces[2].status = "down"
    /\ [interface |-> 1, in_bps |-> 64, out_bps |-> 4] \in reply.stats
    /\ [interface |-> 2, in_bps |-> 0, out_bps |-> 0] \in reply.stats

\* ---- C36
\* s is a canonical MAC: six pairs of lowercase hex digits separated by colons.
canonical(s) ==
    /\ Len(s) = 17
    /\ \A k \in 1..17 :
          IF k % 3 = 0 THEN s[k] = ":" ELSE \E i \in 1..16 : hex_chars[i] = s[k]

\* The input is an already-formatted string or six raw bytes (as a byte
\* string or as a string of six characters).
accepted(arg) ==
    \/ arg.kind = "str" /\ colon_formatted(arg.val)
    \/ arg.kind \in {"bytes", "str"} /\ Len(arg.val) = 6

\* C36: format_mac_address returns null or a canonical MAC for every input,
\* and null for an input that is neither an already-formatted string nor six
\* raw bytes.
C36_Claim ==
    (reply.fn = "format_mac_address" /\ reply.returned) =>
        /\ reply.result = None \/ canonical(reply.result)
        /\ ~accepted(reply.arg) => reply.result = None

\* ---- C37
\* The probes and the poll workers that exist.
probes == fleet.ping_waiting + fleet.ping_running
workers == fleet.waiting + fleet.checking + fleet.polling

\* C37: the scheduler never runs two cycles at once.  Outside phase B no
\* poll worker exists and outside phase A no probe; phase A begins only from
\* the top of the loop, which is reached only from the sleep; phase B begins
\* only from phase A when every probe has returned (the step that commits or
\* rolls back the status update); and there is at most one probe and one
\* worker per device of the snapshot.
C37_OneCycleAtATime ==
    /\ [](fleet.phase # "B" => workers = 0)
    /\ [](fleet.phase # "A" => probes = 0)
    /\ [](probes <= NumFleet /\ workers <= NumFleet)
    /\ [][(fleet'.phase = "A" /\ fleet.phase # "A") => fleet.phase = "top"]_vars
    /\ [][(fleet'.phase = "top" /\ fleet.phase # "top") => fleet.phase = "sleep"]_vars
    /\ [][(fleet'.phase = "B" /\ fleet.phase # "B")
            => fleet.phase = "A" /\ probes = 0]_vars

\* A later pass is in phase B with workers in flight, after a pass whose
\* workers had run (one of them with an error).
C37_Witness ==
    /\ fleet.prev = "worker"
    /\ fleet.phase = "B"
    /\ fleet.polling > 0 /\ fleet.waiting > 0

\* ---- C38
\* C38: after every committed write of the reachability phase or of a poll
\* worker a device's status and last_seen agree: "down" goes with a null
\* last_seen and "up" with a set one.
C38_StatusAgreesWithLastSeen ==
    \A d \in Dev :
        /\ devices[d].status = "down" => devices[d].last_seen = NULL
        /\ devices[d].status = "up" => devices[d].last_seen # NULL

\* Phase A stored one device as up, whose poll worker then marked it down and
\* cleared last_seen, while the worker of another committed "up" with the
\* time of its commit.
C38_Witness ==
    \E d \in Dev, e \in Dev :
        /\ ping.committed /\ ping.ok[d]
        /\ outcome[d] = "down"
        /\ devices[d].status = "down" /\ devices[d].last_seen = NULL
        /\ outcome[e] = "committed"
        /\ devices[e].status = "up" /\ devices[e].last_seen = cycle

\* ---- C39
\* The links whose destination the request changed in storage.
changed ==
    {l \in links : \E b \in reply.before : b.id = l.id /\ b.dst_device_id # l.dst_device_id}

\* C39: the updated count of a non-dry-run backfill is the number of links
\* whose destination the run changed in storage; it is 0 when the commit
\* failed and was rolled back.
C39_Claim ==
    (reply.fn = "backfill_links" /\ reply.status = "ok" /\ ~reply.dry_run)
    => reply.updated = Cardinality(changed)

\* ---- C40
\* A non-dry-run request that follows a non-dry-run request.
second_run ==
    /\ reply.fn = "backfill_links" /\ reply.run = 2
    /\ ~reply.dry_run /\ ~reply.first.dry_run

\* The links the first request resolved.
resolved_first ==
    {l.id : l \in {b \in reply.before : b.dst_device_id # NULL}}
        \ {l.id : l \in {b \in reply.first.before : b.dst_device_id # NULL}}

\* The second request updated nothing, suggested nothing for a link the
\* first had resolved, and left the table as it found it.
nothing_redone ==
    /\ reply.updated = 0
    /\ \A s \in reply.suggestions : s.link_id \notin resolved_first
    /\ links = reply.before

\* C40 as stated: a second non-dry-run backfill, with nothing changed in
\* between, updates no link, reports no suggestion for a link already
\* resolved and leaves storage unchanged.
C40_Claim == second_run => nothing_redone

\* C40: after a non-dry-run backfill that committed and whose limit left none
\* of the selected links out, a second one updates nothing, suggests nothing
\* and leaves storage unchanged.
C40_SecondRunIdle ==
    (/\ second_run
     /\ reply.first.committed
     /\ reply.first.picked = {l \in reply.first.before : l.dst_device_id = NULL})
    => nothing_redone /\ reply.suggestions = {}

\* The first request resolved one of two links and committed; the second
\* went through the other one again and found nothing to do.
C40_Witness ==
    /\ second_run
    /\ reply.first.committed /\ reply.first.updated = 1
    /\ Cardinality(reply.first.picked) = 2
    /\ reply.status = "ok" /\ reply.processed = 1
    /\ nothing_redone
    /\ resolved_first # {}

====

